---- MODULE Spec2Model ----
(***************************************************************************)
(* Model of the SAW decision-analysis core of ashanr/dss:                  *)
(*   src/api/services/saw_algorithm.py  (SAWService)                       *)
(* One call of SAWService.analyze is a sequence of stages; each stage is   *)
(* one action.  Floating-point numbers are modelled as exact rationals     *)
(* <<numerator, denominator>> in lowest terms with a positive denominator. *)
(***************************************************************************)
EXTENDS Integers, Sequences, FiniteSets, TLC

(***************************************************************************)
(* Numbers.  A Python value is a rational <<n, d>> with d > 0, the float   *)
(* NaN, or an object that is neither int nor float (a string, None).       *)
(***************************************************************************)
NaN == <<0, 0>>
NonNumeric == <<0, -1>>

Abs(n) == IF n < 0 THEN -n ELSE n

RECURSIVE GCD(_, _)
GCD(a, b) == IF b = 0 THEN a ELSE GCD(b, a % b)

Norm(n, d) ==
    LET s == IF d < 0 THEN -1 ELSE 1
        g == GCD(Abs(n), Abs(d))
    IN  <<(s * n) \div g, (s * d) \div g>>

R(n) == <<n, 1>>
Zero == R(0)
One == R(1)

Add(a, b) == Norm(a[1] * b[2] + b[1] * a[2], a[2] * b[2])
Sub(a, b) == Norm(a[1] * b[2] - b[1] * a[2], a[2] * b[2])
Mul(a, b) == Norm(a[1] * b[1], a[2] * b[2])
Div(a, b) == Norm(a[1] * b[2], a[2] * b[1])
Lt(a, b) == a[1] * b[2] < b[1] * a[2]
Le(a, b) == a[1] * b[2] <= b[1] * a[2]

\* the integer square root of a perfect square
ISqrt(n) == CHOOSE r \in 0..n : r * r = n
IsSquareInt(n) == \E r \in 0..n : r * r = n
IsSquare(q) == q[1] >= 0 /\ IsSquareInt(q[1]) /\ IsSquareInt(q[2])
\* np.sqrt on a rational that is the square of a rational
Sqrt(q) == <<ISqrt(q[1]), ISqrt(q[2])>>

Pow10(d) == IF d = 0 THEN 1 ELSE IF d = 1 THEN 10 ELSE IF d = 2 THEN 100
            ELSE IF d = 3 THEN 1000 ELSE 10000

\* Python's round(x, d): the nearest multiple of 10^-d, ties to even
Round(q, d) ==
    LET m == q[1] * Pow10(d)
        f == m \div q[2]
        r == m % q[2]
        up == \/ 2 * r > q[2]
              \/ (2 * r = q[2] /\ f % 2 = 1)
    IN  Norm(IF up THEN f + 1 ELSE f, Pow10(d))

Range(s) == {s[i] : i \in 1..Len(s)}

RECURSIVE SeqSum(_)
SeqSum(s) == IF s = <<>> THEN Zero ELSE Add(Head(s), SeqSum(Tail(s)))

\* Python's min() and max() of a non-empty list of numbers
SeqMin(s) == CHOOSE v \in Range(s) : \A w \in Range(s) : Le(v, w)
SeqMax(s) == CHOOSE v \in Range(s) : \A w \in Range(s) : Le(w, v)

Ones(n) == [i \in 1..n |-> One]


(***************************************************************************)
(* CriteriaType and the service's own directionality map (__init__).       *)
(***************************************************************************)
BENEFIT == "benefit"
COST == "cost"

SelfCriteriaTypes ==
    [c \in {"cost_of_living", "university_ranking", "language_barrier",
            "visa_difficulty", "job_prospects", "climate_score",
            "safety_index"} |->
        IF c \in {"cost_of_living", "language_barrier", "visa_difficulty"}
        THEN COST ELSE BENEFIT]

(***************************************************************************)
(* Outlier capper: _handle_outliers with its default method 'iqr'.         *)
(***************************************************************************)
\* np.percentile(values, p), linear interpolation between order statistics
Percentile(values, p) ==
    LET n == Len(values)
        sorted == SortSeq(values, Lt)
        idx == p * (n - 1)
        lo == idx \div 100
        frac == Norm(idx % 100, 100)
    IN  IF idx % 100 = 0
        THEN sorted[lo + 1]
        ELSE Add(sorted[lo + 1],
                 Mul(frac, Sub(sorted[lo + 2], sorted[lo + 1])))

LowerBound(values) ==
    LET q1 == Percentile(values, 25)
        q3 == Percentile(values, 75)
        iqr == Sub(q3, q1)
    IN  Sub(q1, Mul(<<3, 2>>, iqr))

UpperBound(values) ==
    LET q1 == Percentile(values, 25)
        q3 == Percentile(values, 75)
        iqr == Sub(q3, q1)
    IN  Add(q3, Mul(<<3, 2>>, iqr))

\* mutant: outliers are removed instead of capped
HandleOutliersDropped(values) ==
    LET lower_bound == LowerBound(values)
        upper_bound == UpperBound(values)
        Inside(v) == ~Lt(v, lower_bound) /\ ~Lt(upper_bound, v)
    IN  SelectSeq(values, Inside)

\* mutant: a value above the upper bound is replaced by the lower bound
HandleOutliersToLower(values) ==
    LET lower_bound == LowerBound(values)
        upper_bound == UpperBound(values)
    IN  [i \in 1..Len(values) |->
            IF Lt(values[i], lower_bound) THEN lower_bound
            ELSE IF Lt(upper_bound, values[i]) THEN lower_bound
            ELSE values[i]]

HandleOutliers(values) ==
    LET lower_bound == LowerBound(values)
        upper_bound == UpperBound(values)
    IN  [i \in 1..Len(values) |->
            IF Lt(values[i], lower_bound) THEN lower_bound
            ELSE IF Lt(upper_bound, values[i]) THEN upper_bound
            ELSE values[i]]

(***************************************************************************)
(* Normalizer: the three methods of _normalize_data.                       *)
(***************************************************************************)
\* mutant: the COST branch is missing, every criterion is scaled as a benefit
MinMaxNormalizeBenefitOnly(values, criteria_type) ==
    LET min_val == SeqMin(values)
        max_val == SeqMax(values)
    IN  IF max_val = min_val
        THEN Ones(Len(values))
        ELSE [i \in 1..Len(values) |->
                Div(Sub(values[i], min_val), Sub(max_val, min_val))]

MinMaxNormalize(values, criteria_type) ==
    LET min_val == SeqMin(values)
        max_val == SeqMax(values)
    IN  IF max_val = min_val
        THEN Ones(Len(values))
        ELSE IF criteria_type = COST
        THEN [i \in 1..Len(values) |->
                Div(Sub(max_val, values[i]), Sub(max_val, min_val))]
        ELSE [i \in 1..Len(values) |->
                Div(Sub(values[i], min_val), Sub(max_val, min_val))]

Mean(values) == Div(SeqSum(values), R(Len(values)))

\* np.std(values) squared: the population variance
Variance(values) ==
    LET mean_val == Mean(values)
    IN  Mean([i \in 1..Len(values) |->
                Mul(Sub(values[i], mean_val), Sub(values[i], mean_val))])

\* mutant: a constant criterion is given 0.0 instead of 1.0
ZScoreNormalizeZeros(values, criteria_type) ==
    LET mean_val == Mean(values)
        z_scores == [i \in 1..Len(values) |-> Sub(values[i], mean_val)]
        min_z == SeqMin(z_scores)
        max_z == SeqMax(z_scores)
        normalized == [i \in 1..Len(values) |->
                         Div(Sub(z_scores[i], min_z), Sub(max_z, min_z))]
    IN  IF Variance(values) = Zero
        THEN [i \in 1..Len(values) |-> Zero]
        ELSE IF criteria_type = COST
        THEN [i \in 1..Len(values) |-> Sub(One, normalized[i])]
        ELSE normalized

\* mutant: a cost criterion is not inverted
ZScoreNormalizeNoInvert(values, criteria_type) ==
    LET mean_val == Mean(values)
        z_scores == [i \in 1..Len(values) |-> Sub(values[i], mean_val)]
        min_z == SeqMin(z_scores)
        max_z == SeqMax(z_scores)
    IN  IF Variance(values) = Zero
        THEN Ones(Len(values))
        ELSE [i \in 1..Len(values) |->
                Div(Sub(z_scores[i], min_z), Sub(max_z, min_z))]

\* The z-scores (val - mean_val) / std_val are carried as multiples of
\* 1/std_val: std_val = sqrt(Variance) is positive wherever they are used,
\* so their order, their min and max and the quotients of their differences
\* are those of the numerators val - mean_val.
ZScoreNormalize(values, criteria_type) ==
    LET mean_val == Mean(values)
        std_sq == Variance(values)
        z_scores == [i \in 1..Len(values) |-> Sub(values[i], mean_val)]
        min_z == SeqMin(z_scores)
        max_z == SeqMax(z_scores)
        normalized == [i \in 1..Len(values) |->
                         Div(Sub(z_scores[i], min_z), Sub(max_z, min_z))]
    IN  IF std_sq = Zero
        THEN Ones(Len(values))
        ELSE IF max_z = min_z
        THEN Ones(Len(values))
        ELSE IF criteria_type = COST
        THEN [i \in 1..Len(values) |-> Sub(One, normalized[i])]
        ELSE normalized

SumOfSquares(values) ==
    SeqSum([i \in 1..Len(values) |-> Mul(values[i], values[i])])

VectorNormalize(values, criteria_type) ==
    LET sum_of_squares == SumOfSquares(values)
        normalized == [i \in 1..Len(values) |->
                         Div(values[i], Sqrt(sum_of_squares))]
        max_norm == SeqMax(normalized)
    IN  IF sum_of_squares = Zero
        THEN Ones(Len(values))
        ELSE IF criteria_type = COST
        THEN [i \in 1..Len(values) |-> Sub(max_norm, normalized[i])]
        ELSE normalized

(***************************************************************************)
(* State of one service instance and of the call in progress.              *)
(***************************************************************************)
VARIABLES
    criteria_types,   \* self.criteria_types of the SAWService instance
    data,             \* argument: criterion -> [kind, vals]
    weights,          \* argument: weight key -> value
    country_names,    \* argument: list of alternative names
    config,           \* argument: NormalizationConfig or None
    pc,               \* position of the call inside analyze
    cfg,              \* local: the configuration in force
    processed_data,   \* local: criterion -> capped values
    normalized_data,  \* local: criterion -> normalized values
    results,          \* local: list of result dicts
    final_results,    \* the returned list of DecisionResult
    error,            \* which ValueError the call raised, or "none"
    call,             \* 1 for the first call, 2 for the repeated call
    first_results,    \* what the first call returned
    other,            \* a second analyze call running on the same instance
    sweep,            \* the sensitivity sweeps in progress, by thread
    stab,             \* one evaluation of _calculate_stability_score
    count,            \* one evaluation of _count_ranking_changes
    capper            \* one evaluation of _handle_outliers

vars == <<criteria_types, data, weights, country_names, config, pc, cfg,
          processed_data, normalized_data, results, final_results, error,
          call, first_results, other, sweep, stab, count, capper>>

args == <<data, weights, country_names, config>>
locals == <<cfg, processed_data, normalized_data, results, final_results>>

None == [method |-> "None", criteria_types |-> <<>>]
Empty == <<>>
\* a criterion's values as the caller passes them: a list, or another container
List(vs) == [kind |-> "list", vals |-> vs]

\* the order in which the data dict holds its keys
CritSeq == <<"cost", "rank", "cost_of_living">>
WeightKey(criterion) == criterion \o "_weight"
Keys(d) == SelectSeq(CritSeq, LAMBDA c : c \in DOMAIN d)

(***************************************************************************)
(* Input validator: _validate_inputs.  "ok", or the check that raised.     *)
(***************************************************************************)
ValuesError(entry, num_countries) ==
    IF entry.kind # "list" THEN "not_a_list"
    ELSE IF Len(entry.vals) # num_countries THEN "length_mismatch"
    ELSE IF \E i \in 1..Len(entry.vals) :
                entry.vals[i] = NonNumeric \/ entry.vals[i] = NaN
    THEN "invalid_value"
    ELSE "ok"

\* mutant: the sign of a weight is not checked
WeightErrorNoSign(weight_value) ==
    IF weight_value = NonNumeric \/ weight_value = NaN THEN "invalid_weight"
    ELSE "ok"

WeightError(weight_value) ==
    IF weight_value = NonNumeric \/ weight_value = NaN THEN "invalid_weight"
    ELSE IF weight_value[1] < 0 THEN "negative_weight"
    ELSE "ok"

ValidateInputs(d, w, names) ==
    IF DOMAIN d = {} THEN "empty_data"
    ELSE IF DOMAIN w = {} THEN "empty_weights"
    ELSE IF names = <<>> THEN "empty_names"
    ELSE IF \E c \in DOMAIN d : ValuesError(d[c], Len(names)) # "ok"
    THEN LET bad == SelectSeq(Keys(d),
                      LAMBDA c : ValuesError(d[c], Len(names)) # "ok")
         IN  ValuesError(d[Head(bad)], Len(names))
    ELSE IF \E k \in DOMAIN w : WeightError(w[k]) # "ok"
    THEN LET k == CHOOSE k \in DOMAIN w : WeightError(w[k]) # "ok"
         IN  WeightError(w[k])
    ELSE IF Cardinality(Range(names)) # Len(names) THEN "duplicate_names"
    ELSE "ok"

(***************************************************************************)
(* _preprocess_data and _normalize_data.                                   *)
(***************************************************************************)
PreprocessData(d) == [c \in DOMAIN d |-> HandleOutliers(d[c].vals)]

Methods == {"min_max", "z_score", "vector"}

\* mutant: a criterion the map does not hold is taken as a cost
CriteriaTypeOfDefaultCost(criterion, conf) ==
    IF criterion \notin DOMAIN conf.criteria_types
    THEN COST
    ELSE conf.criteria_types[criterion]

CriteriaTypeOf(criterion, conf) ==
    IF criterion \notin DOMAIN conf.criteria_types
    THEN BENEFIT
    ELSE conf.criteria_types[criterion]

NormalizeData(d, conf) ==
    [c \in DOMAIN d |->
        IF conf.method = "min_max"
        THEN MinMaxNormalize(d[c], CriteriaTypeOf(c, conf))
        ELSE IF conf.method = "z_score"
        THEN ZScoreNormalize(d[c], CriteriaTypeOf(c, conf))
        ELSE VectorNormalize(d[c], CriteriaTypeOf(c, conf))]

(***************************************************************************)
(* Scorer: _calculate_weighted_scores and _post_process_results.           *)
(***************************************************************************)
Weighted(nd, w) == {c \in DOMAIN nd : WeightKey(c) \in DOMAIN w}

CriteriaScores(nd, w, i) ==
    [c \in Weighted(nd, w) |-> Mul(w[WeightKey(c)], nd[c][i])]

\* mutant: a criterion without a weight counts with weight 1
TotalScoreDefaultOne(nd, w, i) ==
    LET ks == SelectSeq(CritSeq, LAMBDA c : c \in DOMAIN nd)
    IN  SeqSum([k \in 1..Len(ks) |->
                  IF ks[k] \in Weighted(nd, w)
                  THEN CriteriaScores(nd, w, i)[ks[k]]
                  ELSE nd[ks[k]][i]])

TotalScore(nd, w, i) ==
    LET ks == SelectSeq(CritSeq, LAMBDA c : c \in Weighted(nd, w))
    IN  SeqSum([k \in 1..Len(ks) |-> CriteriaScores(nd, w, i)[ks[k]]])

CalculateWeightedScores(nd, w, names) ==
    [i \in 1..Len(names) |->
        [country |-> names[i],
         score |-> TotalScore(nd, w, i),
         criteria_scores |-> CriteriaScores(nd, w, i)]]

\* mutant: an unstable descending sort, equal scores end up reversed
RECURSIVE InsertDescUnstable(_, _)
InsertDescUnstable(x, sorted) ==
    IF sorted = <<>> THEN <<x>>
    ELSE IF Le(Head(sorted).score, x.score) THEN <<x>> \o sorted
    ELSE <<Head(sorted)>> \o InsertDescUnstable(x, Tail(sorted))

\* list.sort(key = score, reverse = True): stable, equal scores keep their order
RECURSIVE InsertDesc(_, _)
InsertDesc(x, sorted) ==
    IF sorted = <<>> THEN <<x>>
    ELSE IF Lt(Head(sorted).score, x.score) THEN <<x>> \o sorted
    ELSE <<Head(sorted)>> \o InsertDesc(x, Tail(sorted))

RECURSIVE SortInto(_, _)
SortInto(rs, acc) ==
    IF rs = <<>> THEN acc ELSE SortInto(Tail(rs), InsertDesc(Head(rs), acc))

SortByScoreDesc(rs) == SortInto(rs, <<>>)

\* mutant: the reference score is taken from the wrong end of the list
MaxScoreLast(sorted) ==
    LET top == IF sorted # <<>> THEN sorted[Len(sorted)].score ELSE One
    IN  IF top = Zero THEN One ELSE top

MaxScore(sorted) ==
    LET top == IF sorted # <<>> THEN sorted[1].score ELSE One
    IN  IF top = Zero THEN One ELSE top

Percentage(score, max_score) == Round(Mul(Div(score, max_score), R(100)), 2)

\* mutant: competition ranking, equal scores share a rank
PostProcessResultsTiedRanks(sorted) ==
    [rank \in 1..Len(sorted) |->
        [country |-> sorted[rank].country,
         score |-> Round(sorted[rank].score, 4),
         rank |-> 1 + Cardinality({j \in 1..Len(sorted) :
                                     Lt(sorted[rank].score, sorted[j].score)}),
         percentage |-> Percentage(sorted[rank].score, MaxScore(sorted)),
         criteria_scores |-> sorted[rank].criteria_scores]]

PostProcessResults(sorted) ==
    [rank \in 1..Len(sorted) |->
        [country |-> sorted[rank].country,
         score |-> Round(sorted[rank].score, 4),
         rank |-> rank,
         percentage |-> Percentage(sorted[rank].score, MaxScore(sorted)),
         criteria_scores |-> sorted[rank].criteria_scores]]

(***************************************************************************)
(* SAWService.analyze, one action per stage.                               *)
(***************************************************************************)
\* mutant: a validation failure is recorded but the call goes on
ValidateNoAbort ==
    /\ pc = "start"
    /\ pc' = "validated"
    /\ error' = IF ValidateInputs(data, weights, country_names) # "ok"
                THEN ValidateInputs(data, weights, country_names)
                ELSE error
    /\ cfg' = IF config = None
              THEN [method |-> "min_max", criteria_types |-> criteria_types]
              ELSE config
    /\ UNCHANGED <<criteria_types, other, sweep, stab, count, capper, args, processed_data, normalized_data,
                   results, final_results, call, first_results>>

Validate ==
    /\ pc = "start"
    /\ IF ValidateInputs(data, weights, country_names) # "ok"
       THEN /\ pc' = "failed"
            /\ error' = ValidateInputs(data, weights, country_names)
            /\ cfg' = cfg
       ELSE /\ pc' = "validated"
            /\ error' = error
            /\ cfg' = IF config = None
                      THEN [method |-> "min_max",
                            criteria_types |-> criteria_types]
                      ELSE config
    /\ UNCHANGED <<criteria_types, other, sweep, stab, count, capper, args, processed_data, normalized_data,
                   results, final_results, call, first_results>>

\* mutant: the capped values are written back into the caller's lists
PreprocessInPlace ==
    /\ pc = "validated"
    /\ processed_data' = PreprocessData(data)
    /\ data' = [c \in DOMAIN data |-> List(processed_data'[c])]
    /\ pc' = "preprocessed"
    /\ UNCHANGED <<criteria_types, other, sweep, stab, count, capper, weights, country_names, config, cfg,
                   normalized_data, results, final_results, error, call,
                   first_results>>

Preprocess ==
    /\ pc = "validated"
    /\ processed_data' = PreprocessData(data)
    /\ pc' = "preprocessed"
    /\ UNCHANGED <<criteria_types, other, sweep, stab, count, capper, args, cfg, normalized_data, results,
                   final_results, error, call, first_results>>

Normalize ==
    /\ pc = "preprocessed"
    /\ IF cfg.method \in Methods
       THEN /\ normalized_data' = NormalizeData(processed_data, cfg)
            /\ pc' = "normalized"
            /\ error' = error
       ELSE /\ normalized_data' = normalized_data
            /\ pc' = "failed"
            /\ error' = "unknown_method"
    /\ UNCHANGED <<criteria_types, other, sweep, stab, count, capper, args, cfg, processed_data, results,
                   final_results, call, first_results>>

Score ==
    /\ pc = "normalized"
    /\ results' = CalculateWeightedScores(normalized_data, weights,
                                          country_names)
    /\ pc' = "weighted"
    /\ UNCHANGED <<criteria_types, other, sweep, stab, count, capper, args, cfg, processed_data,
                   normalized_data, final_results, error, call,
                   first_results>>

PostProcess ==
    /\ pc = "weighted"
    /\ results' = SortByScoreDesc(results)
    /\ final_results' = PostProcessResults(results')
    /\ pc' = "done"
    /\ UNCHANGED <<criteria_types, other, sweep, stab, count, capper, args, cfg, processed_data,
                   normalized_data, error, call, first_results>>

\* the caller repeats the call with the same argument objects
CallAgain ==
    /\ pc = "done"
    /\ call = 1
    /\ call' = 2
    /\ first_results' = final_results
    /\ pc' = "start"
    /\ cfg' = None
    /\ processed_data' = Empty
    /\ normalized_data' = Empty
    /\ results' = Empty
    /\ final_results' = Empty
    /\ UNCHANGED <<criteria_types, other, sweep, stab, count, capper, args, error>>

(***************************************************************************)
(* analyze as one function of its arguments and the instance's map: what   *)
(* a caller gets back, a raised error or the result list.                  *)
(***************************************************************************)
Raised(message) == [raised |-> TRUE, error |-> message, results |-> Empty]

Analyze(d, w, names, conf, ctypes) ==
    IF ValidateInputs(d, w, names) # "ok"
    THEN Raised(ValidateInputs(d, w, names))
    ELSE LET c == IF conf = None
                  THEN [method |-> "min_max", criteria_types |-> ctypes]
                  ELSE conf
         IN  IF c.method \notin Methods
             THEN Raised("unknown_method")
             ELSE [raised |-> FALSE,
                   error |-> "none",
                   results |-> PostProcessResults(SortByScoreDesc(
                       CalculateWeightedScores(
                           NormalizeData(PreprocessData(d), c), w, names)))]

\* the class of the exception analyze lets out: every raise of the pipeline
\* is a ValueError and analyze raises it again unchanged
ErrorType(outcome) == IF outcome.raised THEN "ValueError" ELSE "none"

(***************************************************************************)
(* A second call of analyze on the same SAWService instance, in another    *)
(* thread: its arguments and locals are its own, the instance is shared.   *)
(***************************************************************************)
IdleCall ==
    [pc |-> "idle", data |-> Empty, weights |-> Empty,
     country_names |-> Empty, config |-> None, cfg |-> None,
     processed_data |-> Empty, normalized_data |-> Empty, results |-> Empty,
     final_results |-> Empty, error |-> "none"]

NewCall(in) ==
    [IdleCall EXCEPT !.pc = "start", !.data = in.data,
                     !.weights = in.weights,
                     !.country_names = in.country_names,
                     !.config = in.config]

\* the next stage of analyze on the call record c
StageStep(c, ctypes) ==
    CASE c.pc = "start" ->
            IF ValidateInputs(c.data, c.weights, c.country_names) # "ok"
            THEN [c EXCEPT !.pc = "failed",
                           !.error = ValidateInputs(c.data, c.weights,
                                                    c.country_names)]
            ELSE [c EXCEPT !.pc = "validated",
                           !.cfg = IF c.config = None
                                   THEN [method |-> "min_max",
                                         criteria_types |-> ctypes]
                                   ELSE c.config]
      [] c.pc = "validated" ->
            [c EXCEPT !.pc = "preprocessed",
                      !.processed_data = PreprocessData(c.data)]
      [] c.pc = "preprocessed" ->
            IF c.cfg.method \in Methods
            THEN [c EXCEPT !.pc = "normalized",
                           !.normalized_data =
                                NormalizeData(c.processed_data, c.cfg)]
            ELSE [c EXCEPT !.pc = "failed", !.error = "unknown_method"]
      [] c.pc = "normalized" ->
            [c EXCEPT !.pc = "weighted",
                      !.results = CalculateWeightedScores(
                            c.normalized_data, c.weights, c.country_names)]
      [] c.pc = "weighted" ->
            [c EXCEPT !.pc = "done",
                      !.results = SortByScoreDesc(c.results),
                      !.final_results =
                            PostProcessResults(SortByScoreDesc(c.results))]

Running(c) ==
    c.pc \in {"start", "validated", "preprocessed", "normalized", "weighted"}

\* mutant: a call that brings its own configuration stores the directionality
\* map on the instance
OtherStepStoresTypes ==
    /\ Running(other)
    /\ other' = StageStep(other, criteria_types)
    /\ criteria_types' = IF other.pc = "start" /\ other.config # None
                          THEN other.config.criteria_types
                          ELSE criteria_types
    /\ UNCHANGED <<args, pc, locals, error, call, first_results, sweep, stab, count, capper>>

OtherStep ==
    /\ Running(other)
    /\ other' = StageStep(other, criteria_types)
    /\ UNCHANGED <<criteria_types, args, pc, locals, error, call,
                   first_results, sweep, stab, count, capper>>

(***************************************************************************)
(* Sensitivity analyzer: AnalyticsService.perform_sensitivity_analysis.    *)
(***************************************************************************)
\* the order in which the base weight dict holds its keys
WeightSeq == <<"cost_weight", "rank_weight", "cost_of_living_weight",
               "rank_weight_weight", "bonus">>
WeightKeys(w) == SelectSeq(WeightSeq, LAMBDA k : k \in DOMAIN w)

\* str.endswith
EndsWith(s, suffix) ==
    /\ Len(s) >= Len(suffix)
    /\ SubSeq(s, Len(s) - Len(suffix) + 1, Len(s)) = suffix

\* str.replace(sub, ''): every occurrence is removed, left to right
RECURSIVE RemoveAll(_, _)
RemoveAll(s, sub) ==
    IF Len(s) < Len(sub) THEN s
    ELSE IF SubSeq(s, 1, Len(sub)) = sub
    THEN RemoveAll(SubSeq(s, Len(sub) + 1, Len(s)), sub)
    ELSE SubSeq(s, 1, 1) \o RemoveAll(SubSeq(s, 2, Len(s)), sub)

CriterionName(weight_name) == RemoveAll(weight_name, "_weight")

\* mutant: every weight of the copy is scaled, not only the one under study
ModifiedWeightsScaleAll(base_weights, weight_name, variation) ==
    [k \in DOMAIN base_weights |-> Mul(base_weights[k], Add(One, variation))]

\* mutant: the weight is multiplied by the variation itself
ModifiedWeightsNoOffset(base_weights, weight_name, variation) ==
    [base_weights EXCEPT ![weight_name] = Mul(@, variation)]

\* mutant: the weight is multiplied by (1 - variation)
ModifiedWeightsInverted(base_weights, weight_name, variation) ==
    [base_weights EXCEPT ![weight_name] = Mul(@, Sub(One, variation))]

\* base_weights.copy() with the one weight multiplied by (1 + variation)
ModifiedWeights(base_weights, weight_name, variation) ==
    [base_weights EXCEPT ![weight_name] = Mul(@, Add(One, variation))]

\* the perturbed run of one variation: what analyze returns or raises
PerturbedRun(d, base_weights, names, weight_name, variation, ctypes) ==
    IF weight_name \notin DOMAIN base_weights
    THEN Raised("KeyError")
    ELSE Analyze(d, ModifiedWeights(base_weights, weight_name, variation),
                 names, None, ctypes)

Ranking(rs) == [i \in 1..Len(rs) |-> rs[i].country]
ScoresOf(rs) ==
    [c \in Range(Ranking(rs)) |->
        rs[CHOOSE i \in 1..Len(rs) :
              /\ rs[i].country = c
              /\ \A j \in (i + 1)..Len(rs) : rs[j].country # c].score]

\* mutant: a name missing from the modified ranking is not counted
CountRankingChangesFoundOnly(baseline, modified) ==
    Cardinality({i \in 1..Len(baseline) :
                    /\ baseline[i] \in Range(modified)
                    /\ \E j \in 1..Len(modified) :
                          modified[j] = baseline[i] /\ j # i})

\* mutant: only a name that moved towards the top is counted
CountRankingChangesMovedUp(baseline, modified) ==
    Cardinality({i \in 1..Len(baseline) :
                    \/ baseline[i] \notin Range(modified)
                    \/ \E j \in 1..Len(modified) :
                          modified[j] = baseline[i] /\ j < i})

\* list.index: the first position of x
FirstIndex(s, x) ==
    CHOOSE j \in 1..Len(s) : s[j] = x /\ \A k \in 1..(j - 1) : s[k] # x

CountRankingChanges(baseline, modified) ==
    Cardinality({i \in 1..Len(baseline) :
                    \/ baseline[i] \notin Range(modified)
                    \/ FirstIndex(modified, baseline[i]) # i})

AbsQ(q) == <<Abs(q[1]), q[2]>>
MinQ(a, b) == IF Lt(b, a) THEN b ELSE a
MaxQ(a, b) == IF Lt(a, b) THEN b ELSE a

RECURSIVE SetSum(_, _)
SetSum(S, f) ==
    IF S = {} THEN Zero
    ELSE LET x == CHOOSE x \in S : TRUE
         IN  Add(f[x], SetSum(S \ {x}, f))

CalculateScoreChanges(baseline_scores, modified_scores) ==
    LET common == DOMAIN baseline_scores \cap DOMAIN modified_scores
        country_changes ==
            [c \in common |-> Sub(modified_scores[c], baseline_scores[c])]
        changes == [c \in common |-> AbsQ(country_changes[c])]
    IN  [average_change |->
            IF common = {} THEN Zero
            ELSE Div(SetSum(common, changes), R(Cardinality(common))),
         max_change |->
            IF common = {} THEN Zero
            ELSE CHOOSE v \in {changes[c] : c \in common} :
                    \A c \in common : Le(changes[c], v),
         min_change |->
            IF common = {} THEN Zero
            ELSE CHOOSE v \in {changes[c] : c \in common} :
                    \A c \in common : Le(v, changes[c]),
         country_changes |-> country_changes]

max_possible_changes == 10
max_reasonable_score_change == 2

Rationals(counts) == [i \in 1..Len(counts) |-> R(counts[i])]

\* mutant: the result is not limited to 0..100
CalculateStabilityScoreUnclamped(ranking_changes, score_changes) ==
    IF ranking_changes = <<>> \/ score_changes = <<>> THEN R(100)
    ELSE Mul(Div(Add(Sub(One, Div(Mean(Rationals(ranking_changes)),
                                  R(max_possible_changes))),
                     Sub(One, MinQ(Div(Mean(score_changes),
                                       R(max_reasonable_score_change)),
                                   One))),
                 R(2)),
             R(100))

\* mutant: nothing measured counts as fully unstable
CalculateStabilityScoreEmptyZero(ranking_changes, score_changes) ==
    IF ranking_changes = <<>> \/ score_changes = <<>> THEN Zero
    ELSE MaxQ(Zero,
              MinQ(R(100),
                   Mul(Div(Add(Sub(One, Div(Mean(Rationals(ranking_changes)),
                                            R(max_possible_changes))),
                               Sub(One,
                                   MinQ(Div(Mean(score_changes),
                                            R(max_reasonable_score_change)),
                                        One))),
                           R(2)),
                       R(100))))

CalculateStabilityScore(ranking_changes, score_changes) ==
    IF ranking_changes = <<>> \/ score_changes = <<>> THEN R(100)
    ELSE LET normalized_ranking_stability ==
                Sub(One, Div(Mean(Rationals(ranking_changes)),
                             R(max_possible_changes)))
             normalized_score_stability ==
                Sub(One, MinQ(Div(Mean(score_changes),
                                  R(max_reasonable_score_change)), One))
             stability ==
                Mul(Div(Add(normalized_ranking_stability,
                            normalized_score_stability), R(2)), R(100))
         IN  MaxQ(Zero, MinQ(R(100), stability))

MaxInt(counts) == CHOOSE v \in Range(counts) : \A w \in Range(counts) : w <= v

\* the sensitivity_metrics dict of one criterion
SensitivityMetrics(ranking_changes, score_changes, top_country_changes) ==
    [average_ranking_changes |->
        IF ranking_changes = <<>> THEN Zero
        ELSE Mean(Rationals(ranking_changes)),
     max_ranking_changes |->
        IF ranking_changes = <<>> THEN 0 ELSE MaxInt(ranking_changes),
     average_score_change |->
        IF score_changes = <<>> THEN Zero ELSE Mean(score_changes),
     max_score_change |->
        IF score_changes = <<>> THEN Zero ELSE SeqMax(score_changes),
     top_country_change_frequency |->
        IF top_country_changes = <<>> THEN Zero
        ELSE Div(R(Cardinality({i \in 1..Len(top_country_changes) :
                                    top_country_changes[i]})),
                 R(Len(top_country_changes))),
     stability_score |->
        CalculateStabilityScore(ranking_changes, score_changes)]

\* sensitivity_results[criterion] = record: a new key is appended, a key
\* already present keeps its place and gets the new value
Put(sr, rec) ==
    IF \E i \in 1..Len(sr) : sr[i].criterion = rec.criterion
    THEN [i \in 1..Len(sr) |->
            IF sr[i].criterion = rec.criterion THEN rec ELSE sr[i]]
    ELSE Append(sr, rec)

Stability(sr, i) == sr[i].sensitivity_metrics.stability_score

\* the criterion the loop of _calculate_overall_sensitivity ends with:
\* a strictly smaller stability replaces the minimum, starting from infinity
MostSensitive(sr) ==
    IF sr = <<>> THEN <<>>
    ELSE LET i == CHOOSE i \in 1..Len(sr) :
                    /\ \A j \in 1..Len(sr) : Le(Stability(sr, i), Stability(sr, j))
                    /\ \A j \in 1..(i - 1) : Lt(Stability(sr, i), Stability(sr, j))
         IN  <<sr[i].criterion>>

\* a strictly larger stability replaces the maximum, starting from 0
LeastSensitive(sr) ==
    IF \A i \in 1..Len(sr) : ~Lt(Zero, Stability(sr, i)) THEN <<>>
    ELSE LET i == CHOOSE i \in 1..Len(sr) :
                    /\ \A j \in 1..Len(sr) : Le(Stability(sr, j), Stability(sr, i))
                    /\ \A j \in 1..(i - 1) : Lt(Stability(sr, j), Stability(sr, i))
         IN  <<sr[i].criterion>>

\* mutant: the medium bucket has no lower limit
CalculateOverallSensitivityWideMedium(sr) ==
    [overall_stability_score |->
        IF sr = <<>> THEN R(100)
        ELSE Mean([i \in 1..Len(sr) |-> Stability(sr, i)]),
     most_sensitive_criterion |-> MostSensitive(sr),
     least_sensitive_criterion |-> LeastSensitive(sr),
     average_ranking_changes |->
        IF sr = <<>> THEN Zero
        ELSE Mean([i \in 1..Len(sr) |->
                     sr[i].sensitivity_metrics.average_ranking_changes]),
     average_score_changes |->
        IF sr = <<>> THEN Zero
        ELSE Mean([i \in 1..Len(sr) |->
                     sr[i].sensitivity_metrics.average_score_change]),
     sensitivity_distribution |->
        [high_sensitivity |->
            Cardinality({i \in 1..Len(sr) : Lt(Stability(sr, i), R(70))}),
         medium_sensitivity |->
            Cardinality({i \in 1..Len(sr) : Lt(Stability(sr, i), R(85))}),
         low_sensitivity |->
            Cardinality({i \in 1..Len(sr) : Le(R(85), Stability(sr, i))})]]

CalculateOverallSensitivity(sr) ==
    [overall_stability_score |->
        IF sr = <<>> THEN R(100)
        ELSE Mean([i \in 1..Len(sr) |-> Stability(sr, i)]),
     most_sensitive_criterion |-> MostSensitive(sr),
     least_sensitive_criterion |-> LeastSensitive(sr),
     average_ranking_changes |->
        IF sr = <<>> THEN Zero
        ELSE Mean([i \in 1..Len(sr) |->
                     sr[i].sensitivity_metrics.average_ranking_changes]),
     average_score_changes |->
        IF sr = <<>> THEN Zero
        ELSE Mean([i \in 1..Len(sr) |->
                     sr[i].sensitivity_metrics.average_score_change]),
     sensitivity_distribution |->
        [high_sensitivity |->
            Cardinality({i \in 1..Len(sr) : Lt(Stability(sr, i), R(70))}),
         medium_sensitivity |->
            Cardinality({i \in 1..Len(sr) :
                            /\ Le(R(70), Stability(sr, i))
                            /\ Lt(Stability(sr, i), R(85))}),
         low_sensitivity |->
            Cardinality({i \in 1..Len(sr) : Le(R(85), Stability(sr, i))})]]

Recommendation(message, criterion) ==
    [message |-> message, criterion |-> criterion]

GenerateSensitivityRecommendations(sr, overall) ==
    LET stability_score == overall.overall_stability_score
        most_sensitive == overall.most_sensitive_criterion
        unstable == SelectSeq([i \in 1..Len(sr) |-> i],
                              LAMBDA i : Lt(Stability(sr, i), R(60)))
    IN  <<Recommendation(IF Le(R(85), stability_score) THEN "highly_stable"
                         ELSE IF Le(R(70), stability_score) THEN "moderate"
                         ELSE "sensitive", <<>>)>>
        \o (IF most_sensitive # <<>> /\ most_sensitive # <<"">>
            THEN <<Recommendation("highest_impact", most_sensitive)>>
            ELSE <<>>)
        \o [k \in 1..Len(unstable) |->
              Recommendation("review_weight", <<sr[unstable[k]].criterion>>)]

Sweeps == {1, 2}
NoError == [type |-> "none", message |-> "none"]

IdleSweep ==
    [pc |-> "idle", data |-> Empty, base_weights |-> Empty,
     country_names |-> Empty, variation_range |-> Empty,
     baseline_ranking |-> Empty, baseline_scores |-> Empty,
     ki |-> 0, vi |-> 0, modified_weights |-> Empty,
     variations |-> Empty, ranking_changes |-> Empty,
     score_changes |-> Empty, top_country_changes |-> Empty,
     sensitivity_results |-> Empty, report |-> Empty, error |-> NoError,
     range_given |-> FALSE]

NewSweep(in) ==
    [IdleSweep EXCEPT !.pc = "baseline", !.data = in.data,
                      !.base_weights = in.base_weights,
                      !.country_names = in.country_names,
                      !.variation_range = in.variation_range,
                      !.range_given = in.range_given]

\* mutant: no key is skipped
NextWeightKeyNoSkip(keys, from) == IF from <= Len(keys) THEN from ELSE 0

\* the position, from index from on, of the next key the loop does not skip
NextWeightKey(keys, from) ==
    IF \E i \in from..Len(keys) : EndsWith(keys[i], "_weight")
    THEN CHOOSE i \in from..Len(keys) :
            /\ EndsWith(keys[i], "_weight")
            /\ \A j \in from..(i - 1) : ~EndsWith(keys[j], "_weight")
    ELSE 0

\* the sweep goes on with the key at position ki, or to the summary
Enter(sw, ki) ==
    [sw EXCEPT !.pc = IF ki = 0 THEN "finish" ELSE "variations",
               !.ki = ki, !.vi = 1,
               !.variations = Empty, !.ranking_changes = Empty,
               !.score_changes = Empty, !.top_country_changes = Empty]

DefaultVariationRange ==
    <<Norm(-3, 10), Norm(-2, 10), Norm(-1, 10), Zero,
      Norm(1, 10), Norm(2, 10), Norm(3, 10)>>

\* the sweep record after the baseline run: any exception is raised again
\* as a plain Exception that carries its message
AfterBaseline(sw, ctypes) ==
    LET baseline == Analyze(sw.data, sw.base_weights, sw.country_names,
                            None, ctypes)
        variation_range == IF sw.range_given THEN sw.variation_range
                           ELSE DefaultVariationRange
    IN  IF baseline.raised
        THEN [sw EXCEPT !.pc = "failed",
                        !.variation_range = variation_range,
                        !.error = [type |-> "Exception",
                                   message |-> baseline.error]]
        ELSE Enter([sw EXCEPT
                      !.variation_range = variation_range,
                      !.baseline_ranking = Ranking(baseline.results),
                      !.baseline_scores = ScoresOf(baseline.results)],
                   NextWeightKey(WeightKeys(sw.base_weights), 1))

\* lines 44-58: the default range, the baseline run, the first weight key
SweepBaseline(s) ==
    /\ sweep[s].pc = "baseline"
    /\ sweep' = [sweep EXCEPT ![s] = AfterBaseline(sweep[s], criteria_types)]
    /\ UNCHANGED <<criteria_types, args, pc, locals, error, call,
                   first_results, other, stab, count, capper>>

\* the dict of one variation; b is the baseline, as [ranking, scores]
VariationResult(variation, new_weight, b, modified_results) ==
    LET modified_ranking == Ranking(modified_results)
        baseline_ranking == b.ranking
        baseline_scores == b.scores
    IN  [variation_percentage |-> Round(Mul(variation, R(100)), 1),
         new_weight_value |-> Round(new_weight, 3),
         ranking_changes |->
            CountRankingChanges(baseline_ranking, modified_ranking),
         top_country |->
            IF modified_ranking # <<>> THEN <<modified_ranking[1]>> ELSE <<>>,
         top_country_changed |->
            IF baseline_ranking # <<>> /\ modified_ranking # <<>>
            THEN baseline_ranking[1] # modified_ranking[1]
            ELSE FALSE,
         score_changes |->
            CalculateScoreChanges(baseline_scores, ScoresOf(modified_results)),
         new_ranking |->
            SubSeq(modified_ranking, 1,
                   IF Len(modified_ranking) < 5 THEN Len(modified_ranking)
                   ELSE 5)]

\* the sweep record after the variation at position vi: a failed run is
\* logged and leaves the four lists as they were
AfterVariation(sw, ctypes) ==
    LET weight_name == WeightKeys(sw.base_weights)[sw.ki]
        variation == sw.variation_range[sw.vi]
        run == PerturbedRun(sw.data, sw.base_weights, sw.country_names,
                            weight_name, variation, ctypes)
        modified_weights ==
            ModifiedWeights(sw.base_weights, weight_name, variation)
        r == VariationResult(variation, modified_weights[weight_name],
                             [ranking |-> sw.baseline_ranking,
                              scores |-> sw.baseline_scores],
                             run.results)
    IN  IF run.raised
        THEN [sw EXCEPT !.vi = @ + 1,
                        !.modified_weights =
                            IF run.error = "KeyError" THEN @
                            ELSE modified_weights]
        ELSE [sw EXCEPT !.vi = @ + 1,
                        !.modified_weights = modified_weights,
                        !.variations = Append(@, r),
                        !.ranking_changes = Append(@, r.ranking_changes),
                        !.score_changes =
                            Append(@, AbsQ(r.score_changes.average_change)),
                        !.top_country_changes =
                            Append(@, r.top_country_changed)]

\* mutant: the first failing variation ends the sweep with an error
SweepVariationAborts(s) ==
    /\ sweep[s].pc = "variations"
    /\ sweep[s].vi <= Len(sweep[s].variation_range)
    /\ LET after == AfterVariation(sweep[s], criteria_types)
       IN  sweep' = [sweep EXCEPT ![s] =
                IF Len(after.variations) = Len(sweep[s].variations)
                THEN [after EXCEPT !.pc = "failed",
                                   !.error = [type |-> "Exception",
                                              message |-> "variation"]]
                ELSE after]
    /\ UNCHANGED <<criteria_types, args, pc, locals, error, call,
                   first_results, other, stab, count, capper>>

\* lines 110-143: one pass of the loop over variation_range
SweepVariation(s) ==
    /\ sweep[s].pc = "variations"
    /\ sweep[s].vi <= Len(sweep[s].variation_range)
    /\ sweep' = [sweep EXCEPT ![s] = AfterVariation(sweep[s], criteria_types)]
    /\ UNCHANGED <<criteria_types, args, pc, locals, error, call,
                   first_results, other, stab, count, capper>>

AfterCriterion(sw) ==
    LET keys == WeightKeys(sw.base_weights)
        rec == [criterion |-> CriterionName(keys[sw.ki]),
                variations |-> sw.variations,
                sensitivity_metrics |->
                    SensitivityMetrics(sw.ranking_changes, sw.score_changes,
                                       sw.top_country_changes)]
    IN  Enter([sw EXCEPT !.sensitivity_results = Put(@, rec)],
              NextWeightKey(keys, sw.ki + 1))

\* lines 145-156 and 56-64: the criterion's record is stored under its
\* name and the loop moves to the next weight key
SweepCriterionDone(s) ==
    /\ sweep[s].pc = "variations"
    /\ sweep[s].vi > Len(sweep[s].variation_range)
    /\ sweep' = [sweep EXCEPT ![s] = AfterCriterion(sweep[s])]
    /\ UNCHANGED <<criteria_types, args, pc, locals, error, call,
                   first_results, other, stab, count, capper>>

AfterFinish(sw) ==
    LET overall == CalculateOverallSensitivity(sw.sensitivity_results)
    IN  [sw EXCEPT
            !.pc = "done",
            !.report =
                [baseline_analysis |->
                    [ranking |-> sw.baseline_ranking,
                     scores |-> sw.baseline_scores,
                     top_country |->
                        IF sw.baseline_ranking # <<>>
                        THEN <<sw.baseline_ranking[1]>> ELSE <<>>],
                 criterion_sensitivity |-> sw.sensitivity_results,
                 overall_sensitivity |-> overall,
                 recommendations |->
                    GenerateSensitivityRecommendations(
                        sw.sensitivity_results, overall),
                 methodology |->
                    [variation_range |-> sw.variation_range,
                     analysis_method |-> "Weight Variation Analysis",
                     base_weights |-> sw.base_weights]]]

\* lines 66-89: the summary and the returned report; analysis_timestamp is
\* the wall clock and is left out
SweepFinish(s) ==
    /\ sweep[s].pc = "finish"
    /\ sweep' = [sweep EXCEPT ![s] = AfterFinish(sweep[s])]
    /\ UNCHANGED <<criteria_types, args, pc, locals, error, call,
                   first_results, other, stab, count, capper>>

(***************************************************************************)
(* _calculate_stability_score applied to two lists of one length.          *)
(***************************************************************************)
IdleStab ==
    [pc |-> "idle", ranking_changes |-> Empty, score_changes |-> Empty,
     stability_score |-> Zero]

StabilityScore ==
    /\ stab.pc = "start"
    /\ stab' = [stab EXCEPT
                  !.pc = "done",
                  !.stability_score =
                      CalculateStabilityScore(stab.ranking_changes,
                                              stab.score_changes)]
    /\ UNCHANGED <<criteria_types, args, pc, locals, error, call,
                   first_results, other, sweep, count, capper>>

(***************************************************************************)
(* _count_ranking_changes and _handle_outliers applied on their own.       *)
(***************************************************************************)
IdleCount ==
    [pc |-> "idle", baseline |-> Empty, modified |-> Empty, changes |-> 0]

CountChanges ==
    /\ count.pc = "start"
    /\ count' = [count EXCEPT
                   !.pc = "done",
                   !.changes = CountRankingChanges(count.baseline,
                                                   count.modified)]
    /\ UNCHANGED <<criteria_types, args, pc, locals, error, call,
                   first_results, other, sweep, stab, capper>>

IdleCapper ==
    [pc |-> "idle", values |-> Empty, capped_values |-> Empty]

CapOutliers ==
    /\ capper.pc = "start"
    /\ capper' = [capper EXCEPT
                    !.pc = "done",
                    !.capped_values = HandleOutliers(capper.values)]
    /\ UNCHANGED <<criteria_types, args, pc, locals, error, call,
                   first_results, other, sweep, stab, count>>

(***************************************************************************)
(* The calls explored: bounded families of arguments.                      *)
(***************************************************************************)
MaxAlts == 3
MaxWeight == 2

AltNames == <<"A", "B", "C", "D", "E">>
Names(n) == SubSeq(AltNames, 1, n)

Vals == {R(-3), R(0), R(4)}
ValueLists(n) == [1..n -> Vals]

Types == [c \in {"cost", "rank"} |-> IF c = "cost" THEN COST ELSE BENEFIT]
Configs == {None} \cup {[method |-> m, criteria_types |-> Types] : m \in Methods}

WeightVals == {R(w) : w \in 0..MaxWeight}
UnitWeights == [k \in {"cost_weight", "rank_weight"} |-> One]

Input(d, w, names, conf) ==
    [data |-> d, weights |-> w, country_names |-> names, config |-> conf]

\* every cost list with every rank list over two values, both weights 1
RankLists(n) == [1..n -> {R(0), R(4)}]
ValueInputs ==
    {Input([c \in {"cost", "rank"} |-> List(IF c = "cost" THEN v1 ELSE v2)],
           UnitWeights, Names(Len(v1)), conf) :
        <<v1, v2>> \in UNION {ValueLists(n) \X RankLists(n) : n \in 1..MaxAlts},
        conf \in Configs}

\* every pair of value lists of length two with every weight map over one
\* or two keys
WeightMaps ==
    UNION {[ks -> WeightVals] :
            ks \in {{"cost_weight"}, {"rank_weight"},
                    {"cost_weight", "rank_weight"}}}

WeightInputs ==
    {Input([c \in {"cost", "rank"} |-> List(IF c = "cost" THEN v1 ELSE v2)],
           w, <<"B", "A">>, conf) :
        <<v1, v2>> \in ValueLists(2) \X ValueLists(2),
        w \in WeightMaps, conf \in Configs}

\* a criterion the service's own map knows, called without a configuration
DefaultInputs ==
    {Input([c \in {"cost_of_living"} |-> List(v)],
           [k \in {"cost_of_living_weight"} |-> One], Names(Len(v)), None) :
        v \in UNION {ValueLists(n) : n \in 1..MaxAlts}}

\* a criterion the given configuration's map does not hold, beside the two
\* it holds, all three with the same values, under each method
UnmappedInputs ==
    {Input([c \in {"cost", "rank", "cost_of_living"} |-> List(v)],
           [k \in {"cost_of_living_weight"} |-> One], Names(Len(v)),
           [method |-> m, criteria_types |-> Types]) :
        v \in UNION {ValueLists(n) : n \in 1..MaxAlts}, m \in Methods}

\* the worked example of the specification, an outlier, an unknown method
ScenarioInputs ==
    { Input([c \in {"cost", "rank"} |->
              List(IF c = "cost" THEN <<R(5), R(2), R(8)>>
                                 ELSE <<R(7), R(9), R(3)>>)],
            UnitWeights, <<"A", "B", "C">>,
            [method |-> "min_max", criteria_types |-> Types]) }
    \cup
    { Input([c \in {"cost", "rank"} |->
              List(IF c = "cost" THEN <<R(0), R(0), R(0), R(0), v>>
                                 ELSE <<R(1), R(2), R(3), R(4), R(5)>>)],
            UnitWeights, Names(5), conf) :
        v \in {R(-3), R(4)}, conf \in Configs }
    \cup
    { Input([c \in {"cost"} |-> List(<<R(0), R(4)>>)],
            [k \in {"cost_weight"} |-> One], Names(2),
            [method |-> "other", criteria_types |-> Types]) }

\* ill-formed arguments
BadVals == {R(4), NaN, NonNumeric}
BadEntries ==
    {List(vs) : vs \in UNION {[1..n -> BadVals] : n \in 1..2}}
    \cup {[kind |-> "tuple", vals |-> <<R(0), R(4)>>]}
BadData ==
    {Empty} \cup UNION {[cs -> BadEntries] : cs \in {{"cost"}, {"cost", "rank"}}}
BadWeights ==
    {Empty} \cup UNION {[ks -> {R(1), R(-1), NaN, NonNumeric}] :
                          ks \in {{"cost_weight"}, {"cost_weight", "rank_weight"}}}
BadNames == {<<>>, <<"A", "B">>, <<"A", "A">>}

InvalidInputs ==
    {Input(d, w, names, None) : d \in BadData, w \in BadWeights, names \in BadNames}

\* np.sqrt is modelled on squares of rationals only
Representable(in) ==
    in.config.method = "vector" =>
        \A c \in DOMAIN in.data :
            IsSquare(SumOfSquares(HandleOutliers(in.data[c].vals)))

Inputs ==
    {in \in ValueInputs \cup WeightInputs \cup DefaultInputs
                \cup UnmappedInputs \cup ScenarioInputs :
        Representable(in)}
    \cup InvalidInputs

Init ==
    /\ criteria_types = SelfCriteriaTypes
    /\ \E in \in Inputs :
        /\ data = in.data
        /\ weights = in.weights
        /\ country_names = in.country_names
        /\ config = in.config
    /\ pc = "start"
    /\ cfg = None
    /\ processed_data = Empty
    /\ normalized_data = Empty
    /\ results = Empty
    /\ final_results = Empty
    /\ error = "none"
    /\ call = 1
    /\ first_results = Empty
    /\ other = IdleCall
    /\ sweep = [s \in Sweeps |-> IdleSweep]
    /\ stab = IdleStab
    /\ count = IdleCount
    /\ capper = IdleCapper

Next ==
    \/ Validate
    \/ Preprocess
    \/ Normalize
    \/ Score
    \/ PostProcess
    \/ CallAgain

Spec == Init /\ [][Next]_vars

(***************************************************************************)
(* The sensitivity sweeps explored.                                        *)
(***************************************************************************)
SweepInput(d, w, names, vr, given) ==
    [data |-> d, base_weights |-> w, country_names |-> names,
     variation_range |-> vr, range_given |-> given]

\* a halving and a raise, a range whose first entry is below -1, a range
\* with entries below -1 only, no entry
VariationRanges ==
    {<<Norm(-1, 2), Zero, Norm(1, 2)>>, <<R(-2), Zero, One>>,
     <<R(-2), R(-3)>>, <<>>}

SweepData(n) ==
    {[c \in {"rank", "cost_of_living"} |->
        List(IF c = "rank" THEN v1 ELSE v2)] :
        <<v1, v2>> \in RankLists(n) \X RankLists(n)}

\* both weights, one weight only, a key that is no <criterion>_weight, and
\* keys in which _weight occurs twice
SweepWeightMaps ==
    UNION {[ks -> WeightVals] :
            ks \in {{"rank_weight", "cost_of_living_weight"},
                    {"rank_weight"},
                    {"cost_of_living_weight", "bonus"},
                    {"rank_weight", "rank_weight_weight"},
                    {"rank_weight_weight"}}}

GeneralSweeps ==
    {SweepInput(d, w, <<"B", "A">>, vr, TRUE) :
        d \in SweepData(2), w \in SweepWeightMaps, vr \in VariationRanges}

SweepUnitWeights == [k \in {"rank_weight", "cost_of_living_weight"} |-> One]

\* three alternatives: scores that need rounding
RoundingSweeps ==
    {SweepInput([c \in {"rank", "cost_of_living"} |->
                    List(IF c = "rank" THEN v ELSE <<R(0), R(4), R(0)>>)],
                SweepUnitWeights, <<"A", "B", "C">>, vr, TRUE) :
        v \in ValueLists(3), vr \in VariationRanges \ {<<>>}}

TwelveNames == <<"A", "B", "C", "D", "E", "F", "G", "H", "I", "J", "K", "L">>

\* the worked example with the default range, twelve alternatives whose
\* order is reversed by each of the decreases of the cost weight, and ten
\* alternatives, listed from the dearest to the cheapest, whose only weight
\* is set to 0
ScenarioSweeps ==
    { SweepInput([c \in {"rank", "cost_of_living"} |->
                    List(IF c = "rank" THEN <<R(7), R(9), R(3)>>
                                       ELSE <<R(5), R(2), R(8)>>)],
                 SweepUnitWeights, <<"A", "B", "C">>, <<>>, FALSE),
      SweepInput([c \in {"rank", "cost_of_living"} |->
                    List([i \in 1..12 |-> R(i - 1)])],
                 [k \in {"rank_weight", "cost_of_living_weight"} |->
                    IF k = "rank_weight" THEN Norm(9, 10) ELSE One],
                 TwelveNames,
                 <<Norm(-5, 10), Norm(-4, 10), Norm(-3, 10)>>, TRUE),
      SweepInput([c \in {"cost_of_living"} |->
                    List([i \in 1..10 |-> R(IF i = 10 THEN 0 ELSE 11 - i)])],
                 [k \in {"cost_of_living_weight"} |-> R(10)],
                 SubSeq(TwelveNames, 1, 10), <<R(-1)>>, TRUE) }

\* input the validator rejects
InvalidSweeps ==
    {SweepInput(d, w, names, <<>>, FALSE) :
        d \in {Empty} \cup [{"cost"} -> BadEntries],
        w \in BadWeights, names \in BadNames}

SweepInputs ==
    GeneralSweeps \cup RoundingSweeps \cup ScenarioSweeps \cup InvalidSweeps

\* no analyze call of the caller's own is in progress
NoCall ==
    /\ data = Empty
    /\ weights = Empty
    /\ country_names = Empty
    /\ config = None
    /\ pc = "idle"
    /\ cfg = None
    /\ processed_data = Empty
    /\ normalized_data = Empty
    /\ results = Empty
    /\ final_results = Empty
    /\ error = "none"
    /\ call = 1
    /\ first_results = Empty

InitSens ==
    /\ criteria_types = SelfCriteriaTypes
    /\ NoCall
    /\ other = IdleCall
    /\ \E in \in SweepInputs :
          sweep = [s \in Sweeps |-> IF s = 1 THEN NewSweep(in) ELSE IdleSweep]
    /\ stab = IdleStab
    /\ count = IdleCount
    /\ capper = IdleCapper

NextSens ==
    \/ SweepBaseline(1)
    \/ SweepVariation(1)
    \/ SweepCriterionDone(1)
    \/ SweepFinish(1)

SpecSens == InitSens /\ [][NextSens]_vars

(***************************************************************************)
(* The stability score on its own: lists of one length, as the loop over   *)
(* the variations builds them.                                             *)
(***************************************************************************)
MaxVariations == 2
ChangeCounts == {0, 5, 12, 30}
ScoreChanges == {Zero, One, Norm(5, 2), R(7)}

InitStab ==
    /\ criteria_types = SelfCriteriaTypes
    /\ NoCall
    /\ other = IdleCall
    /\ sweep = [s \in Sweeps |-> IdleSweep]
    /\ count = IdleCount
    /\ capper = IdleCapper
    /\ \E n \in 0..MaxVariations :
       \E rc \in [1..n -> ChangeCounts] :
       \E sc \in [1..n -> ScoreChanges] :
          stab = [IdleStab EXCEPT !.pc = "start",
                                  !.ranking_changes = rc,
                                  !.score_changes = sc]

NextStab == StabilityScore

SpecStab == InitStab /\ [][NextStab]_vars

(***************************************************************************)
(* The ranking-change count on its own: two rankings, each without a       *)
(* repeated name, over names that need not be the same.                    *)
(***************************************************************************)
MaxRanking == 3
RankedNames == {"A", "B", "C", "D"}
Rankings ==
    UNION {{r \in [1..n -> RankedNames] :
                \A i, j \in 1..n : r[i] = r[j] => i = j} :
            n \in 0..MaxRanking}

InitCount ==
    /\ criteria_types = SelfCriteriaTypes
    /\ NoCall
    /\ other = IdleCall
    /\ sweep = [s \in Sweeps |-> IdleSweep]
    /\ stab = IdleStab
    /\ capper = IdleCapper
    /\ \E b \in Rankings : \E m \in Rankings :
          count = [IdleCount EXCEPT !.pc = "start", !.baseline = b,
                                    !.modified = m]

NextCount == CountChanges

SpecCount == InitCount /\ [][NextCount]_vars

(***************************************************************************)
(* The outlier capper on its own: every vector of a criterion's values.    *)
(***************************************************************************)
MaxValues == 5
CapVals == {R(-9), R(0), R(1), R(9)}

InitCap ==
    /\ criteria_types = SelfCriteriaTypes
    /\ NoCall
    /\ other = IdleCall
    /\ sweep = [s \in Sweeps |-> IdleSweep]
    /\ stab = IdleStab
    /\ count = IdleCount
    /\ \E n \in 1..MaxValues : \E vs \in [1..n -> CapVals] :
          capper = [IdleCapper EXCEPT !.pc = "start", !.values = vs]

NextCap == CapOutliers

SpecCap == InitCap /\ [][NextCap]_vars

(***************************************************************************)
(* Two analyses at once on one service instance: two analyze calls, or two *)
(* sensitivity sweeps, their steps interleaved in any order.               *)
(***************************************************************************)
ConcCalls ==
    {in \in DefaultInputs : Len(in.country_names) = 2}
    \cup {Input([c \in {"cost", "rank"} |->
                    List(IF c = "cost" THEN <<R(-3), R(4)>>
                                       ELSE <<R(0), R(4)>>)],
                 UnitWeights, <<"A", "B">>, conf) : conf \in Configs}
    \cup {Input([c \in {"cost"} |-> List(<<R(4), NaN>>)],
                 [k \in {"cost_weight"} |-> One], <<"A", "B">>, None)}

ConcWeightMaps ==
    {[k \in {"rank_weight", "cost_of_living_weight"} |->
        IF k = "rank_weight" THEN w ELSE One] : w \in {Zero, One, R(2)}}

ConcSweeps ==
    {SweepInput([c \in {"rank", "cost_of_living"} |->
                    List(IF c = "rank" THEN <<R(0), R(4)>> ELSE v)],
                w, <<"B", "A">>, vr, TRUE) :
        v \in {<<R(0), R(4)>>, <<R(4), R(0)>>},
        w \in ConcWeightMaps,
        vr \in {<<R(-2), Norm(1, 2)>>}}
    \cup {SweepInput([c \in {"cost"} |-> List(<<R(4), R(4)>>)],
                      [k \in {"cost_weight"} |-> R(-1)], <<"A", "B">>,
                      <<>>, TRUE)}

TwoCalls ==
    /\ \E in \in ConcCalls :
          /\ data = in.data
          /\ weights = in.weights
          /\ country_names = in.country_names
          /\ config = in.config
    /\ pc = "start"
    /\ cfg = None
    /\ processed_data = Empty
    /\ normalized_data = Empty
    /\ results = Empty
    /\ final_results = Empty
    /\ error = "none"
    /\ call = 1
    /\ first_results = Empty
    /\ \E in \in ConcCalls : other = NewCall(in)
    /\ sweep = [s \in Sweeps |-> IdleSweep]

TwoSweeps ==
    /\ NoCall
    /\ other = IdleCall
    /\ \E a, b \in ConcSweeps :
          sweep = [s \in Sweeps |-> IF s = 1 THEN NewSweep(a) ELSE NewSweep(b)]

InitConc ==
    /\ criteria_types = SelfCriteriaTypes
    /\ stab = IdleStab
    /\ count = IdleCount
    /\ capper = IdleCapper
    /\ (TwoCalls \/ TwoSweeps)

NextConc ==
    \/ Validate
    \/ Preprocess
    \/ Normalize
    \/ Score
    \/ PostProcess
    \/ OtherStep
    \/ \E s \in Sweeps : SweepBaseline(s)
    \/ \E s \in Sweeps : SweepVariation(s)
    \/ \E s \in Sweeps : SweepCriterionDone(s)
    \/ \E s \in Sweeps : SweepFinish(s)

SpecConc == InitConc /\ [][NextConc]_vars


(***************************************************************************)
(* Properties.                                                             *)
(***************************************************************************)
N == Len(country_names)
Returned == pc = "done"
IndexOf(name) == CHOOSE i \in 1..N : country_names[i] = name

\* C1: a returned list has exactly N results, every input alternative name
\* appears in it exactly once, and the ranks are exactly 1..N, each once,
\* also when scores are equal.
C1_RanksArePermutation ==
    Returned =>
        /\ Len(final_results) = N
        /\ \A i \in 1..N :
             Cardinality({r \in 1..Len(final_results) :
                            final_results[r].country = country_names[i]}) = 1
        /\ \A k \in 1..N :
             Cardinality({r \in 1..Len(final_results) :
                            final_results[r].rank = k}) = 1
        /\ \A r \in 1..Len(final_results) : final_results[r].rank \in 1..N

C1_Witness ==
    /\ Returned
    /\ N >= 3
    /\ results[1].score = results[2].score
    /\ results[2].score # results[3].score

\* C2: the returned list follows the raw weighted scores in descending order,
\* and alternatives with equal scores keep the relative order they have in
\* the input name list.
C2_SortedStable ==
    Returned =>
        /\ \A r \in 1..Len(final_results) :
             final_results[r].country = results[r].country
        /\ \A r \in 1..(Len(results) - 1) :
             Le(results[r + 1].score, results[r].score)
        /\ \A r, t \in 1..Len(results) :
             (r < t /\ results[r].score = results[t].score) =>
                IndexOf(results[r].country) < IndexOf(results[t].country)

C2_Witness ==
    /\ Returned
    /\ country_names = <<"B", "A">>
    /\ results[1].score = results[2].score
    /\ final_results[1].country = "B"

ExampleCall ==
    /\ DOMAIN data = {"cost", "rank"}
    /\ data["cost"] = List(<<R(5), R(2), R(8)>>)
    /\ data["rank"] = List(<<R(7), R(9), R(3)>>)
    /\ weights = UnitWeights
    /\ country_names = <<"A", "B", "C">>
    /\ config = [method |-> "min_max", criteria_types |-> Types]

\* C3: the worked example (cost [5,2,8] COST, rank [7,9,3] BENEFIT, both
\* weights 1, min-max) returns B, A, C with raw scores 2, 7/6, 0, the
\* rounded scores 2.0, 1.1667, 0.0 and percentages 100, 58.33, 0.
C3_WorkedExample ==
    (ExampleCall /\ Returned) =>
        /\ [r \in 1..3 |-> final_results[r].country] = <<"B", "A", "C">>
        /\ [r \in 1..3 |-> results[r].score] = <<R(2), <<7, 6>>, R(0)>>
        /\ [r \in 1..3 |-> final_results[r].score]
              = <<R(2), <<11667, 10000>>, R(0)>>
        /\ [r \in 1..3 |-> final_results[r].percentage]
              = <<R(100), <<5833, 100>>, R(0)>>
        /\ [r \in 1..3 |-> final_results[r].rank] = <<1, 2, 3>>

C3_Witness ==
    /\ ExampleCall
    /\ Returned
    /\ normalized_data["cost"] = <<<<1, 2>>, R(1), R(0)>>
    /\ normalized_data["rank"] = <<<<2, 3>>, R(1), R(0)>>

C5_PercentageRange ==
    Returned =>
        \A r \in 1..Len(final_results) :
            /\ Le(Zero, final_results[r].percentage)
            /\ Le(final_results[r].percentage, R(100))

ValidationRaised == pc = "failed" /\ error # "unknown_method"

EmptyInput == DOMAIN data = {} \/ DOMAIN weights = {} \/ country_names = <<>>
LengthDiffers == \E c \in DOMAIN data : Len(data[c].vals) # N
BadValue ==
    \E c \in DOMAIN data : \E i \in 1..Len(data[c].vals) :
        data[c].vals[i] \in {NaN, NonNumeric}
BadWeight ==
    \E k \in DOMAIN weights :
        weights[k] \in {NaN, NonNumeric} \/ weights[k][1] < 0
DuplicateName ==
    \E i, j \in 1..N : i # j /\ country_names[i] = country_names[j]
NotAList == \E c \in DOMAIN data : data[c].kind # "list"

\* C6 as stated: validation raises exactly when an input is empty, a length
\* differs, a value or weight is non-numeric or NaN, a weight is negative or
\* a name is duplicated.
C6_AsStated ==
    pc # "start" =>
        (ValidationRaised <=>
            (EmptyInput \/ LengthDiffers \/ BadValue \/ BadWeight
                \/ DuplicateName))

\* C6 as amended: validation raises ValueError exactly when one of the listed
\* conditions holds or some criterion's values are not a list; otherwise it
\* returns without raising.
C6_Validation ==
    pc # "start" =>
        (ValidationRaised <=>
            (EmptyInput \/ NotAList \/ LengthDiffers \/ BadValue \/ BadWeight
                \/ DuplicateName))

C6_Witness ==
    /\ ValidationRaised
    /\ BadWeight
    /\ ~(EmptyInput \/ NotAList \/ LengthDiffers \/ BadValue \/ DuplicateName)
    /\ \A k \in DOMAIN weights : weights[k] \notin {NaN, NonNumeric}

WellFormed ==
    ~(EmptyInput \/ NotAList \/ LengthDiffers \/ BadValue \/ BadWeight
        \/ DuplicateName)

\* C7: the stages of a call run in the order validate, cap outliers,
\* normalize, weight, rank; a call whose validation fails raises at once,
\* takes no further step and returns no result list.
C7_StageOrder ==
    [][/\ pc' = "validated" => (pc = "start" /\ WellFormed)
       /\ pc' = "preprocessed" =>
            (pc = "validated" /\ processed_data = Empty)
       /\ pc' = "normalized" =>
            (pc = "preprocessed" /\ processed_data # Empty
                /\ normalized_data = Empty)
       /\ pc' = "weighted" =>
            (pc = "normalized" /\ normalized_data # Empty /\ results = Empty)
       /\ pc' = "done" =>
            (pc = "weighted" /\ results # Empty /\ final_results = Empty)
       /\ (pc = "start" /\ ~WellFormed) =>
            /\ pc' = "failed"
            /\ error' # "none"
            /\ processed_data' = Empty
            /\ normalized_data' = Empty
            /\ results' = Empty
            /\ final_results' = Empty
       /\ pc # "failed"]_vars

C7_Witness ==
    /\ ValidationRaised
    /\ DuplicateName
    /\ processed_data = Empty
    /\ final_results = Empty

Capped == \E c \in DOMAIN data : processed_data[c] # data[c].vals

\* C8: no step of a call changes the data map, the weight map or the name
\* list, and the repeated call with the same arguments returns the list the
\* first call returned.
C8_InputsUnchanged ==
    [][/\ data' = data
       /\ weights' = weights
       /\ country_names' = country_names
       /\ (pc' = "done" /\ call' = 2) => final_results' = first_results]_vars

C8_Witness ==
    /\ Returned
    /\ call = 2
    /\ Capped
    /\ final_results = first_results
    /\ final_results # Empty

Computed == pc \in {"normalized", "weighted", "done"}
IsConstant(values) == \A i \in 1..Len(values) : values[i] = values[1]

\* C9 as stated: with each of the three methods, a criterion whose values
\* are all equal is normalized to 1.0 for every alternative.
C9_AsStated ==
    Computed =>
        \A c \in DOMAIN processed_data :
            IsConstant(processed_data[c]) =>
                normalized_data[c] = Ones(Len(processed_data[c]))

\* C9 as amended: with min-max and z-score a criterion whose values are all
\* equal is normalized to 1.0 for every alternative; with the vector method
\* this holds when all its values are 0.
C9_ConstantCriterion ==
    Computed =>
        \A c \in DOMAIN processed_data :
            (/\ IsConstant(processed_data[c])
             /\ cfg.method = "vector" =>
                    SumOfSquares(processed_data[c]) = Zero) =>
                normalized_data[c] = Ones(Len(processed_data[c]))

C9_Witness ==
    /\ pc = "normalized"
    /\ cfg.method = "z_score"
    /\ N >= 2
    /\ IsConstant(processed_data["cost"])
    /\ processed_data["cost"][1] # Zero
    /\ ~IsConstant(processed_data["rank"])
    /\ normalized_data["cost"] = Ones(N)

NoDuplicates(values) ==
    \A i, j \in 1..Len(values) : values[i] = values[j] => i = j

\* C10 as stated: for a vector without duplicates of any length >= 1,
\* min-max gives 1.0 to the maximum and 0.0 to the minimum of a benefit
\* criterion, and 1.0 to the minimum of a cost criterion.
C10_AsStated ==
    (Computed /\ cfg.method = "min_max") =>
        \A c \in DOMAIN processed_data :
            LET values == processed_data[c]
            IN  NoDuplicates(values) =>
                  \A i \in 1..Len(values) :
                    IF CriteriaTypeOf(c, cfg) = COST
                    THEN values[i] = SeqMin(values) =>
                            normalized_data[c][i] = One
                    ELSE /\ values[i] = SeqMax(values) =>
                            normalized_data[c][i] = One
                         /\ values[i] = SeqMin(values) =>
                            normalized_data[c][i] = Zero

\* C10 as amended: for a vector without duplicates, min-max gives 1.0 to the
\* maximum of a benefit criterion and to the minimum of a cost criterion;
\* the minimum of a benefit criterion gets 0.0 when the vector has at least
\* two values (a single value gets 1.0).
C10_MinMaxExtremes ==
    (Computed /\ cfg.method = "min_max") =>
        \A c \in DOMAIN processed_data :
            LET values == processed_data[c]
            IN  NoDuplicates(values) =>
                  \A i \in 1..Len(values) :
                    IF CriteriaTypeOf(c, cfg) = COST
                    THEN values[i] = SeqMin(values) =>
                            normalized_data[c][i] = One
                    ELSE /\ values[i] = SeqMax(values) =>
                            normalized_data[c][i] = One
                         /\ (values[i] = SeqMin(values) /\ Len(values) >= 2) =>
                            normalized_data[c][i] = Zero
                         /\ Len(values) = 1 => normalized_data[c][i] = One

C10_Witness ==
    /\ pc = "normalized"
    /\ cfg.method = "min_max"
    /\ N = 3
    /\ DOMAIN processed_data = {"cost", "rank"}
    /\ CriteriaTypeOf("cost", cfg) = COST
    /\ NoDuplicates(processed_data["cost"])
    /\ NoDuplicates(processed_data["rank"])

MissingWeight == \E c \in DOMAIN data : WeightKey(c) \notin DOMAIN weights

\* what criterion c adds to the score of alternative i
Contribution(c, i) ==
    IF WeightKey(c) \in DOMAIN weights
    THEN Mul(weights[WeightKey(c)], normalized_data[c][i])
    ELSE Zero

\* C14: when a criterion of the data has no <criterion>_weight key in the
\* weight map, the call does not abort for it; the criterion adds 0 to every
\* alternative's score, has no entry among the criteria scores, and the call
\* returns a ranked result for every alternative.
C14_MissingWeightAddsZero ==
    (WellFormed /\ MissingWeight) =>
        /\ pc = "failed" => error = "unknown_method"
        /\ Returned =>
            /\ Len(final_results) = N
            /\ \A i \in 1..N : \E k \in 1..N :
                    LET r == final_results[k]
                    IN  /\ r.country = country_names[i]
                        /\ r.rank = k
                        /\ DOMAIN r.criteria_scores =
                             {c \in DOMAIN data : WeightKey(c) \in DOMAIN weights}
                        /\ r.score =
                             Round(SeqSum([j \in 1..Len(Keys(data)) |->
                                     Contribution(Keys(data)[j], i)]), 4)

C14_Witness ==
    /\ Returned
    /\ N = 2
    /\ \E c \in DOMAIN data :
          /\ WeightKey(c) \notin DOMAIN weights
          /\ \E i \in 1..N : normalized_data[c][i] # Zero
    /\ \E k \in 1..N : final_results[k].score # Zero

(***************************************************************************)
(* Properties of the sensitivity sweep.                                    *)
(***************************************************************************)
\* the step of sweep s that handles the variation at position vi
VariationStep(s) ==
    /\ sweep[s].pc = "variations"
    /\ sweep'[s].vi = sweep[s].vi + 1

Variation(s) == sweep[s].variation_range[sweep[s].vi]
StudiedKey(s) == WeightKeys(sweep[s].base_weights)[sweep[s].ki]
Last(s) == s[Len(s)]

\* C11: for every weight key, the variation 0 reproduces the baseline: the
\* run is recorded, its ranking-change count is 0, the score delta of every
\* alternative is 0 and top_country_changed is false.
C11_ZeroVariationIsBaseline ==
    [][\A s \in Sweeps :
        (VariationStep(s) /\ Variation(s) = Zero) =>
            /\ Len(sweep'[s].variations) = Len(sweep[s].variations) + 1
            /\ LET entry == Last(sweep'[s].variations)
               IN  /\ entry.variation_percentage = Zero
                   /\ entry.ranking_changes = 0
                   /\ entry.top_country_changed = FALSE
                   /\ entry.new_ranking =
                        SubSeq(sweep[s].baseline_ranking, 1,
                               Len(entry.new_ranking))
                   /\ DOMAIN entry.score_changes.country_changes =
                        Range(sweep[s].country_names)
                   /\ \A c \in Range(sweep[s].country_names) :
                        entry.score_changes.country_changes[c] = Zero]_vars

C11_Witness ==
    /\ sweep[1].pc = "variations"
    /\ \E i, j \in 1..Len(sweep[1].variations) :
          /\ sweep[1].variations[i].variation_percentage = Zero
          /\ sweep[1].variations[i].ranking_changes = 0
          /\ sweep[1].variations[j].ranking_changes > 0
          /\ sweep[1].variations[j].score_changes.max_change # Zero

SweptKeys(sw) ==
    SelectSeq(WeightKeys(sw.base_weights), LAMBDA k : EndsWith(k, "_weight"))

\* the perturbed weight is negative, which the validator rejects
PerturbedNegative(sw, k, variation) ==
    Lt(Mul(sw.base_weights[k], Add(One, variation)), Zero)

\* the variation_percentage values a record of key k must hold, in order
ExpectedPercentages(sw, k) ==
    LET ok == SelectSeq(sw.variation_range,
                        LAMBDA v : ~PerturbedNegative(sw, k, v))
    IN  [i \in 1..Len(ok) |-> Round(Mul(ok[i], R(100)), 1)]

Percentages(rec) ==
    [i \in 1..Len(rec.variations) |-> rec.variations[i].variation_percentage]

BaselineRaises(sw) ==
    Analyze(sw.data, sw.base_weights, sw.country_names, None,
            SelfCriteriaTypes).raised

\* the record stored for weight key number i: the one under its criterion
\* name, unless a later key has the same criterion name
RecordsOf(sw, i) ==
    {j \in 1..Len(sw.sensitivity_results) :
        sw.sensitivity_results[j].criterion = CriterionName(SweptKeys(sw)[i])}
Overwritten(sw, i) ==
    \E j \in (i + 1)..Len(SweptKeys(sw)) :
        CriterionName(SweptKeys(sw)[j]) = CriterionName(SweptKeys(sw)[i])

\* C12: when the Scorer fails for one (weight key, variation) pair, because
\* the perturbed weight is negative, only that pair is missing from the
\* report: the other variations of the key and the other keys are recorded,
\* in order, and the sweep returns a report; it raises only when the
\* baseline run raises.
C12_FailedPairSkipped ==
    \A s \in Sweeps :
        LET sw == sweep[s]
        IN  /\ sw.pc = "failed" => BaselineRaises(sw)
            /\ sw.pc = "done" =>
                 \A i \in 1..Len(SweptKeys(sw)) :
                    ~Overwritten(sw, i) =>
                        /\ Cardinality(RecordsOf(sw, i)) = 1
                        /\ \A j \in RecordsOf(sw, i) :
                             Percentages(sw.report.criterion_sensitivity[j])
                               = ExpectedPercentages(sw, SweptKeys(sw)[i])

C12_Witness ==
    /\ sweep[1].pc = "done"
    /\ Len(sweep[1].variation_range) = 3
    /\ \E k \in DOMAIN sweep[1].base_weights :
          PerturbedNegative(sweep[1], k, sweep[1].variation_range[1])
    /\ \E i, j \in 1..Len(sweep[1].report.criterion_sensitivity) :
          /\ Len(sweep[1].report.criterion_sensitivity[i].variations) = 2
          /\ Len(sweep[1].report.criterion_sensitivity[j].variations) = 3

Rejected(sw) ==
    ValidateInputs(sw.data, sw.base_weights, sw.country_names) # "ok"

\* C13: a sensitivity sweep called with input that the validator rejects
\* fails with the same kind of error that score raises for that input, the
\* validation error, and produces no report.
C13_SameErrorKind ==
    \A s \in Sweeps :
        LET sw == sweep[s]
        IN  (sw.pc \notin {"idle", "baseline"} /\ Rejected(sw)) =>
                /\ sw.pc = "failed"
                /\ sw.report = Empty
                /\ sw.error.type =
                     ErrorType(Analyze(sw.data, sw.base_weights,
                                       sw.country_names, None,
                                       criteria_types))

Entries(sw) ==
    {sw.report.criterion_sensitivity[j].criterion :
        j \in 1..Len(sw.report.criterion_sensitivity)}

WeightKeyAbsent(sw) ==
    {c \in DOMAIN sw.data : WeightKey(c) \notin DOMAIN sw.base_weights}

\* C15: a criterion of the data whose weight key is absent from baseWeights
\* causes no failure and has no entry in the per-criterion section of the
\* report; the entries come only from keys of baseWeights.
C15_AbsentKeyNoEntry ==
    \A s \in Sweeps :
        LET sw == sweep[s]
        IN  /\ (sw.pc = "failed" /\ WeightKeyAbsent(sw) # {}) => Rejected(sw)
            /\ sw.pc = "done" =>
                 /\ Entries(sw) \cap WeightKeyAbsent(sw) = {}
                 /\ \A c \in Entries(sw) :
                      \E k \in DOMAIN sw.base_weights : CriterionName(k) = c

(***************************************************************************)
(* Properties of the stability score.                                      *)
(***************************************************************************)
\* C16: the stability score is between 0 and 100 inclusive, for any number
\* of successful variations (none included), any ranking-change counts and
\* any magnitude of score changes.
C16_StabilityInRange ==
    stab.pc = "done" =>
        /\ Le(Zero, stab.stability_score)
        /\ Le(stab.stability_score, R(100))
        /\ stab.ranking_changes = <<>> => stab.stability_score = R(100)

C16_Witness ==
    /\ stab.pc = "done"
    /\ Len(stab.ranking_changes) = 2
    /\ stab.stability_score = Zero
    /\ Lt(R(max_possible_changes), Mean(Rationals(stab.ranking_changes)))
    /\ Lt(R(max_reasonable_score_change), Mean(stab.score_changes))

\* C19: for every perturbed run the Scorer gets a weight map with the keys
\* of the base map in which the weight under study is base value * (1 +
\* variation) and every other weight equals its base value; no step of the
\* sweep changes the caller's base weight map.
C19_OnlyStudiedWeightChanges ==
    [][\A s \in Sweeps :
        /\ sweep[s].pc # "idle" =>
                sweep'[s].base_weights = sweep[s].base_weights
        /\ VariationStep(s) =>
             LET base == sweep[s].base_weights
                 passed == sweep'[s].modified_weights
             IN  /\ DOMAIN passed = DOMAIN base
                 /\ \A k \in DOMAIN base \ {StudiedKey(s)} :
                        passed[k] = base[k]
                 /\ passed[StudiedKey(s)] =
                        Mul(base[StudiedKey(s)], Add(One, Variation(s)))]_vars

C19_Witness ==
    /\ sweep[1].pc = "variations"
    /\ sweep[1].vi > 1
    /\ \E k, j \in DOMAIN sweep[1].base_weights :
          /\ k = StudiedKey(1)
          /\ j # k
          /\ sweep[1].modified_weights[k] # sweep[1].base_weights[k]
          /\ sweep[1].base_weights[j] # Zero
          /\ sweep[1].modified_weights[j] = sweep[1].base_weights[j]

NoRunFails(sw) ==
    \A k \in DOMAIN sw.base_weights :
        \A i \in 1..Len(sw.variation_range) :
            ~PerturbedNegative(sw, k, sw.variation_range[i])

AllPercentages(sw) ==
    [i \in 1..Len(sw.variation_range) |->
        Round(Mul(sw.variation_range[i], R(100)), 1)]

\* C20 as stated: when no run fails, the report has one per-criterion record
\* for each key of the base weight set, and each record holds one variation
\* entry per variation fraction, in the order of the variation sequence.
C20_AsStated ==
    \A s \in Sweeps :
        LET sw == sweep[s]
        IN  (sw.pc = "done" /\ NoRunFails(sw)) =>
                /\ Len(sw.report.criterion_sensitivity) =
                        Cardinality(DOMAIN sw.base_weights)
                /\ \A j \in 1..Len(sw.report.criterion_sensitivity) :
                        Percentages(sw.report.criterion_sensitivity[j]) =
                            AllPercentages(sw)

\* C20 as amended: the sweep processes the keys of the base weight set that
\* end in _weight and skips the others; when no run fails, the report has
\* one per-criterion record for each distinct name left when _weight is
\* removed from such a key, and each record holds one variation entry per
\* variation fraction, in the order of the variation sequence.
C20_EverySuffixedKey ==
    \A s \in Sweeps :
        LET sw == sweep[s]
            names == {CriterionName(k) :
                        k \in {k \in DOMAIN sw.base_weights :
                                  EndsWith(k, "_weight")}}
        IN  (sw.pc = "done" /\ NoRunFails(sw)) =>
                /\ Entries(sw) = names
                /\ Len(sw.report.criterion_sensitivity) = Cardinality(names)
                /\ \A j \in 1..Len(sw.report.criterion_sensitivity) :
                        Percentages(sw.report.criterion_sensitivity[j]) =
                            AllPercentages(sw)

C20_Witness ==
    /\ sweep[1].pc = "done"
    /\ NoRunFails(sweep[1])
    /\ DOMAIN sweep[1].base_weights = {"cost_of_living_weight", "bonus"}
    /\ Len(sweep[1].variation_range) = 3
    /\ Len(sweep[1].report.criterion_sensitivity) = 1
    /\ Len(sweep[1].report.criterion_sensitivity[1].variations) = 3

Clamp01(q) == MaxQ(Zero, MinQ(One, q))

\* the stability score with each of the two terms limited to 0..1
ClampedTermsStability(average_ranking_changes, average_score_change) ==
    LET T1 == Clamp01(Sub(One, Div(average_ranking_changes,
                                   R(max_possible_changes))))
        T2 == Clamp01(Sub(One, MinQ(Div(average_score_change,
                                        R(max_reasonable_score_change)),
                                    One)))
    IN  Div(Mul(R(100), Add(T1, T2)), R(2))

\* C18: the stability score of a criterion equals 100 * (T1 + T2) / 2 with
\* T1 = 1 - mean(ranking_changes)/10 and T2 = 1 - min(mean(|score
\* change|)/2.0, 1), each limited to 0..1 before the two are averaged, also
\* when the mean ranking-change count exceeds 10.
C18_TermsClamped ==
    \A s \in Sweeps :
        \A j \in 1..Len(sweep[s].sensitivity_results) :
            LET metrics == sweep[s].sensitivity_results[j].sensitivity_metrics
            IN  metrics.stability_score =
                    ClampedTermsStability(metrics.average_ranking_changes,
                                          metrics.average_score_change)

(***************************************************************************)
(* Concurrent analyses.                                                    *)
(***************************************************************************)
\* one step of a sweep that runs alone on a fresh service instance
SweepStepAlone(sw) ==
    CASE sw.pc = "baseline" -> AfterBaseline(sw, SelfCriteriaTypes)
      [] sw.pc = "variations" /\ sw.vi <= Len(sw.variation_range) ->
            AfterVariation(sw, SelfCriteriaTypes)
      [] sw.pc = "variations" /\ sw.vi > Len(sw.variation_range) ->
            AfterCriterion(sw)
      [] sw.pc = "finish" -> AfterFinish(sw)

RECURSIVE RunAlone(_)
RunAlone(sw) ==
    IF sw.pc \in {"idle", "done", "failed"} THEN sw
    ELSE RunAlone(SweepStepAlone(sw))

\* the arguments the sweep was called with
CalledWith(sw) ==
    NewSweep(SweepInput(sw.data, sw.base_weights, sw.country_names,
                        IF sw.range_given THEN sw.variation_range ELSE <<>>,
                        sw.range_given))

\* what every finished call gave back is what it gives back when run alone
AloneOutcome ==
    /\ pc = "done" =>
            final_results = Analyze(data, weights, country_names, config,
                                    SelfCriteriaTypes).results
    /\ pc = "failed" =>
            error = Analyze(data, weights, country_names, config,
                            SelfCriteriaTypes).error
    /\ other.pc = "done" =>
            other.final_results =
                Analyze(other.data, other.weights, other.country_names,
                        other.config, SelfCriteriaTypes).results
    /\ other.pc = "failed" =>
            other.error =
                Analyze(other.data, other.weights, other.country_names,
                        other.config, SelfCriteriaTypes).error
    /\ \A s \in Sweeps :
            sweep[s].pc \in {"done", "failed"} =>
                sweep[s] = RunAlone(CalledWith(sweep[s]))

\* the threads whose own state a step changes
Changed ==
    {t \in {"call", "other", "sweep1", "sweep2"} :
        \/ t = "call" /\ <<args, pc, locals, error>>' # <<args, pc, locals, error>>
        \/ t = "other" /\ other' # other
        \/ t = "sweep1" /\ sweep'[1] # sweep[1]
        \/ t = "sweep2" /\ sweep'[2] # sweep[2]}

\* C17: two analyses that run at once on one service instance, two score
\* calls or two sensitivity sweeps with their steps interleaved in any
\* order, each return what they return when run alone; a step changes the
\* state of its own call only, and no step changes the criteria-type map
\* of the service.
C17_ConcurrentCallsIndependent ==
    /\ [](criteria_types = SelfCriteriaTypes /\ AloneOutcome)
    /\ [][/\ criteria_types' = criteria_types
          /\ Cardinality(Changed) <= 1]_vars

C17_Witness ==
    /\ pc = "done"
    /\ config = None
    /\ DOMAIN data = {"cost_of_living"}
    /\ final_results[1].score # final_results[2].score
    /\ other.pc = "done"
    /\ other.config # None
    /\ other.config.criteria_types # criteria_types
    /\ other.final_results[1].score # other.final_results[2].score

(***************************************************************************)
(* Properties of the ranking-change count.                                 *)
(***************************************************************************)
PositionIn(ranking, name) == CHOOSE j \in 1..Len(ranking) : ranking[j] = name

\* C21: the ranking-change count equals the number of baseline alternatives
\* whose position in the perturbed ranking differs from their baseline
\* position, plus the number of baseline alternatives that are absent from
\* the perturbed ranking.
C21_CountMovedPlusAbsent ==
    count.pc = "done" =>
        LET present == {i \in 1..Len(count.baseline) :
                            count.baseline[i] \in Range(count.modified)}
            absent == (1..Len(count.baseline)) \ present
            moved == {i \in present :
                        PositionIn(count.modified, count.baseline[i]) # i}
        IN  count.changes = Cardinality(moved) + Cardinality(absent)

C21_Witness ==
    /\ count.pc = "done"
    /\ Len(count.baseline) = 3
    /\ Len(count.modified) = 2
    /\ count.baseline[1] \notin Range(count.modified)
    /\ count.baseline[2] = count.modified[2]
    /\ count.baseline[3] = count.modified[1]
    /\ count.changes = 2

(***************************************************************************)
(* Properties of the outlier capper.                                       *)
(***************************************************************************)
\* Q1 - 1.5*IQR and Q3 + 1.5*IQR of a vector
IQR(values) == Sub(Percentile(values, 75), Percentile(values, 25))
Q1Fence(values) == Sub(Percentile(values, 25), Mul(<<3, 2>>, IQR(values)))
Q3Fence(values) == Add(Percentile(values, 75), Mul(<<3, 2>>, IQR(values)))

\* C25: the outlier capper returns a sequence of the same length in which
\* every value below Q1 - 1.5*IQR is replaced by that lower bound, every
\* value above Q3 + 1.5*IQR is replaced by that upper bound and every value
\* within the bounds is unchanged; no value is dropped.
C25_CappedToBounds ==
    capper.pc = "done" =>
        LET values == capper.values
            capped == capper.capped_values
            lower == Q1Fence(values)
            upper == Q3Fence(values)
        IN  /\ Len(capped) = Len(values)
            /\ DOMAIN capped = DOMAIN values
            /\ \A i \in 1..Len(values) :
                  /\ Lt(values[i], lower) => capped[i] = lower
                  /\ Lt(upper, values[i]) => capped[i] = upper
                  /\ (Le(lower, values[i]) /\ Le(values[i], upper))
                        => capped[i] = values[i]

C25_Witness ==
    /\ capper.pc = "done"
    /\ Len(capper.values) = 5
    /\ Lt(Q1Fence(capper.values), Q3Fence(capper.values))
    /\ \E i, j, k \in 1..5 :
          /\ Lt(Q3Fence(capper.values), capper.values[i])
          /\ capper.capped_values[i] = Q3Fence(capper.values)
          /\ Lt(capper.values[j], Q1Fence(capper.values))
          /\ capper.capped_values[j] = Q1Fence(capper.values)
          /\ capper.capped_values[k] = capper.values[k]

\* C29: outlier capping is order-preserving: raw[i] <= raw[j] implies
\* capped[i] <= capped[j], the lower bound never exceeds the upper bound,
\* and an alternative holding the maximum (minimum) raw value still holds
\* the maximum (minimum) capped value.
C29_CappingKeepsOrder ==
    capper.pc = "done" =>
        LET values == capper.values
            capped == capper.capped_values
            n == Len(values)
        IN  /\ Le(LowerBound(values), UpperBound(values))
            /\ \A i, j \in 1..n :
                  Le(values[i], values[j]) => Le(capped[i], capped[j])
            /\ \A i \in 1..n :
                  /\ values[i] = SeqMax(values) => capped[i] = SeqMax(capped)
                  /\ values[i] = SeqMin(values) => capped[i] = SeqMin(capped)

C29_Witness ==
    /\ capper.pc = "done"
    /\ Lt(LowerBound(capper.values), UpperBound(capper.values))
    /\ \E i, j \in 1..Len(capper.values) :
          /\ Lt(capper.values[i], capper.values[j])
          /\ Lt(UpperBound(capper.values), capper.values[j])
          /\ capper.values[i] = capper.capped_values[i]
          /\ Lt(capper.capped_values[i], capper.capped_values[j])
          /\ capper.capped_values[j] = SeqMax(capper.capped_values)

(***************************************************************************)
(* Properties of the overall sensitivity of a report.                      *)
(***************************************************************************)
Report(s) == sweep[s].report
Records(s) == sweep[s].report.criterion_sensitivity
Overall(s) == sweep[s].report.overall_sensitivity
\* the stability score of the record stored under a criterion name
StabilityOf(sr, criterion) ==
    LET i == CHOOSE i \in 1..Len(sr) : sr[i].criterion = criterion
    IN  Stability(sr, i)

\* C22: in every sensitivity report with at least one per-criterion record,
\* most_sensitive_criterion names a criterion whose stability score is the
\* minimum over all records and least_sensitive_criterion names a criterion
\* whose stability score is the maximum; neither is None, including when
\* every stability score is 0.
C22_MostAndLeastNamed ==
    (sweep[1].pc = "done" /\ Records(1) # <<>>) =>
        LET sr == Records(1)
            most == Overall(1).most_sensitive_criterion
            least == Overall(1).least_sensitive_criterion
        IN  /\ most # <<>>
            /\ least # <<>>
            /\ \A j \in 1..Len(sr) :
                  /\ Le(StabilityOf(sr, most[1]), Stability(sr, j))
                  /\ Le(Stability(sr, j), StabilityOf(sr, least[1]))

\* the bucket a stability score belongs to
Bucket(stability) ==
    IF Lt(stability, R(70)) THEN "high"
    ELSE IF Lt(stability, R(85)) THEN "medium" ELSE "low"
InBucket(sr, b) == {i \in 1..Len(sr) : Bucket(Stability(sr, i)) = b}

\* C23: the sensitivity distribution partitions the criteria of the report:
\* each criterion is counted in exactly one of high (stability < 70), medium
\* (70 <= stability < 85) or low (stability >= 85), so high + medium + low
\* equals the number of per-criterion records.
C23_DistributionPartitions ==
    sweep[1].pc = "done" =>
        LET sr == Records(1)
            dist == Overall(1).sensitivity_distribution
        IN  /\ dist.high_sensitivity = Cardinality(InBucket(sr, "high"))
            /\ dist.medium_sensitivity = Cardinality(InBucket(sr, "medium"))
            /\ dist.low_sensitivity = Cardinality(InBucket(sr, "low"))
            /\ dist.high_sensitivity + dist.medium_sensitivity
                    + dist.low_sensitivity = Len(sr)

C23_Witness ==
    /\ sweep[1].pc = "done"
    /\ Len(Records(1)) = 2
    /\ Overall(1).sensitivity_distribution.medium_sensitivity = 1
    /\ Overall(1).sensitivity_distribution.low_sensitivity = 1

(***************************************************************************)
(* Properties of the perturbed runs of a sweep.                            *)
(***************************************************************************)
\* the entries of the successful perturbed runs: those of the records
\* stored so far and those of the criterion under study
RunEntries(sw) ==
    Range(sw.variations) \cup
    UNION {Range(sw.sensitivity_results[j].variations) :
            j \in 1..Len(sw.sensitivity_results)}

\* the Scorer's run for the variation the sweep is about to study
CurrentRun(s) ==
    PerturbedRun(sweep[s].data, sweep[s].base_weights, sweep[s].country_names,
                 StudiedKey(s), Variation(s), criteria_types)

IsPermutationOf(ranking, names) ==
    /\ Len(ranking) = Len(names)
    /\ Range(ranking) = Range(names)

\* C26: the ranking-change count of any successful perturbed run is between
\* 0 and N and is never exactly 1: the baseline and the perturbed ranking
\* are permutations of the same N alternative names, so no baseline
\* alternative is absent from the perturbed ranking.
C26_CountNeverOne ==
    /\ [](\A entry \in RunEntries(sweep[1]) :
            /\ entry.ranking_changes
                    \in (0..Len(sweep[1].country_names)) \ {1}
            /\ IsPermutationOf(sweep[1].baseline_ranking,
                               sweep[1].country_names))
    /\ [][(VariationStep(1) /\ ~CurrentRun(1).raised) =>
            /\ IsPermutationOf(Ranking(CurrentRun(1).results),
                               sweep[1].country_names)
            /\ Len(sweep'[1].variations) = Len(sweep[1].variations) + 1
            /\ Last(sweep'[1].variations).ranking_changes =
                    Cardinality(
                        {i \in 1..Len(sweep[1].baseline_ranking) :
                            sweep[1].baseline_ranking[i] #
                                Ranking(CurrentRun(1).results)[i]})]_vars

C26_Witness ==
    /\ sweep[1].pc = "done"
    /\ Len(sweep[1].country_names) = 3
    /\ \E e1, e2 \in RunEntries(sweep[1]) :
          /\ e1.ranking_changes = 2
          /\ e2.ranking_changes = 3

\* what the default configuration's normalizer gives the Scorer
DefaultNormalized(s) ==
    NormalizeData(PreprocessData(sweep[s].data),
                  [method |-> "min_max", criteria_types |-> criteria_types])
ScoreDelta(entry) == entry.score_changes.country_changes

\* C27: under the default min-max configuration, perturbing one weight with
\* a variation > 0 never lowers any alternative's score, a variation in
\* [-1, 0) never raises any alternative's score, and the delta of an
\* alternative is 0 whenever its normalized value on that criterion is 0.
C27_DeltaFollowsVariation ==
    [][(VariationStep(1) /\ ~CurrentRun(1).raised) =>
        LET entry == Last(sweep'[1].variations)
            names == sweep[1].country_names
        IN  /\ Len(sweep'[1].variations) = Len(sweep[1].variations) + 1
            /\ DOMAIN ScoreDelta(entry) = Range(names)
            /\ Lt(Zero, Variation(1)) =>
                    \A c \in Range(names) : Le(Zero, ScoreDelta(entry)[c])
            /\ (Le(R(-1), Variation(1)) /\ Lt(Variation(1), Zero)) =>
                    \A c \in Range(names) : Le(ScoreDelta(entry)[c], Zero)
            /\ \A crit \in DOMAIN sweep[1].data :
                  (WeightKey(crit) = StudiedKey(1)
                        \/ crit = CriterionName(StudiedKey(1))) =>
                    \A i \in 1..Len(names) :
                        DefaultNormalized(1)[crit][i] = Zero =>
                            ScoreDelta(entry)[names[i]] = Zero]_vars

C27_Witness ==
    /\ sweep[1].pc = "variations"
    /\ StudiedKey(1) = "rank_weight"
    /\ \E i \in 1..Len(sweep[1].country_names) :
          DefaultNormalized(1)["rank"][i] = Zero
    /\ \E up, down \in Range(sweep[1].variations) :
          /\ up.variation_percentage = R(50)
          /\ \E c \in DOMAIN ScoreDelta(up) : Lt(Zero, ScoreDelta(up)[c])
          /\ \E c \in DOMAIN ScoreDelta(up) : ScoreDelta(up)[c] = Zero
          /\ down.variation_percentage = R(-50)
          /\ \E c \in DOMAIN ScoreDelta(down) : Lt(ScoreDelta(down)[c], Zero)

\* every variation of weight key number i fails: the perturbed weight is
\* negative each time
EveryVariationFails(sw, i) ==
    \A v \in Range(sw.variation_range) :
        PerturbedNegative(sw, SweptKeys(sw)[i], v)

NothingMeasured(metrics) ==
    /\ metrics.average_ranking_changes = Zero
    /\ metrics.max_ranking_changes = 0
    /\ metrics.average_score_change = Zero
    /\ metrics.max_score_change = Zero
    /\ metrics.top_country_change_frequency = Zero

\* C28: when every variation of a weight key fails, the report still
\* contains a record for that criterion with an empty variation list, all
\* change metrics equal to 0 and a stability score of exactly 100, and the
\* criterion is counted in the low-sensitivity bucket.
C28_AllFailedIsFullyStable ==
    sweep[1].pc = "done" =>
        LET sw == sweep[1]
            sr == Records(1)
        IN  \A i \in 1..Len(SweptKeys(sw)) :
                (EveryVariationFails(sw, i) /\ ~Overwritten(sw, i)) =>
                    /\ Cardinality(RecordsOf(sw, i)) = 1
                    /\ \A j \in RecordsOf(sw, i) :
                          /\ sr[j].variations = <<>>
                          /\ NothingMeasured(sr[j].sensitivity_metrics)
                          /\ Stability(sr, j) = R(100)
                          /\ j \in InBucket(sr, "low")
                    /\ Overall(1).sensitivity_distribution.low_sensitivity
                          >= Cardinality(RecordsOf(sw, i))

C28_Witness ==
    /\ sweep[1].pc = "done"
    /\ sweep[1].variation_range = <<R(-2), R(-3)>>
    /\ Len(Records(1)) = 2
    /\ DOMAIN sweep[1].base_weights = {"rank_weight", "cost_of_living_weight"}
    /\ Lt(Zero, sweep[1].base_weights["rank_weight"])
    /\ EveryVariationFails(sweep[1], 1)
    /\ ~EveryVariationFails(sweep[1], 2)
    /\ Records(1)[1].variations = <<>>
    /\ Records(1)[2].variations # <<>>
    /\ Stability(Records(1), 1) = R(100)
    /\ Overall(1).sensitivity_distribution.low_sensitivity = 2

(***************************************************************************)
(* Properties of the normalizer's directionality.                          *)
(***************************************************************************)
\* the criteria of the call that the configuration's map does not hold
Unmapped == {c \in DOMAIN data : c \notin DOMAIN cfg.criteria_types}
Normalized == pc \in {"normalized", "weighted", "done"}

AsMinMax == [cfg EXCEPT !.method = "min_max"]

\* C30: for every value vector and both directionalities, the z-score
\* method returns the same normalized vector as the min-max method (in
\* exact arithmetic), so choosing z_score instead of min_max never changes
\* any score or ranking.
C30_ZScoreIsMinMax ==
    /\ Normalized =>
            \A c \in DOMAIN processed_data :
                \A t \in {BENEFIT, COST} :
                    ZScoreNormalize(processed_data[c], t)
                        = MinMaxNormalize(processed_data[c], t)
    /\ (Normalized /\ cfg.method = "z_score") =>
            normalized_data = NormalizeData(processed_data, AsMinMax)
    /\ (pc = "done" /\ cfg.method = "z_score") =>
            final_results =
                Analyze(data, weights, country_names, AsMinMax,
                        criteria_types).results

C30_Witness ==
    /\ pc = "done"
    /\ cfg.method = "z_score"
    /\ Len(country_names) = 3
    /\ "cost" \in DOMAIN normalized_data
    /\ CriteriaTypeOf("cost", cfg) = COST
    /\ \E i \in 1..3 :
          /\ Lt(Zero, normalized_data["cost"][i])
          /\ Lt(normalized_data["cost"][i], One)
    /\ final_results[1].score # final_results[3].score

====
